---- MODULE Spec2Model ----
(***************************************************************************)
(* A model of the tank game.  Five specifications share the state:         *)
(*   - Spec, the simulation engine: GameEngine (the frame loop and         *)
(*     start/stop/pause/resume), EntityManager (per-tick update and        *)
(*     cleanup) and PhysicsSystem (the collision pass);                    *)
(*   - UtilSpec, direct calls of single functions on arguments drawn from  *)
(*     bounded sets: the wrapping functions, cleanup, updateEntities,      *)
(*     createProjectile followed by update, isColliding,                   *)
(*     checkObstacleCollision, updateEnemy and findSafeSpawnPosition;      *)
(*   - GenerateSpec, the sampling loop of generateObstacles, one sample a  *)
(*     step, under fair sampling;                                          *)
(*   - ContainerSpec, the GameContainer component that runs the game in    *)
(*     the browser: its interval's tick, its timeouts and its handlers;    *)
(*   - SpawnSpec, a GameContainer match under way with the enemy spawn     *)
(*     effect's timeout, the respawn timeouts and the difficulty           *)
(*     accumulator below its cap.                                          *)
(*                                                                         *)
(* Number representation.  The source computes in IEEE doubles; the model  *)
(* computes in integers:                                                   *)
(*   - positions are whole pixels; angles are whole quarter turns, so      *)
(*     that Math.cos and Math.sin are exactly -1, 0 or 1;                  *)
(*   - health and damage are stored in tenths of a point (HP per point),   *)
(*     because the collision pass takes 70% of an integer damage;          *)
(*   - powerUpEffects.speed is stored in halves (SPEED_UNIT per 1.0);      *)
(*   - the separating push, force * d / distance, is rounded to the        *)
(*     nearest pixel;                                                      *)
(*   - in GameContainer PLAYER_SPEED 2.75 is 3, the enemies drive at the   *)
(*     cap of the progressive difficulty, 2, and the half pixel of the     *)
(*     enemies' failsafe step is rounded as Math.round does.               *)
(*   - Math.random() in findSafeSpawnPosition and generateObstacles is a   *)
(*     whole number of quarters;                                           *)
(*   - enemySpeedIncrease and the speed bands of createEnemy are in        *)
(*     hundredths of a pixel per tick.                                     *)
(* An optional field (Obstacle.health, Tank.targetRotation,                *)
(* correctedPosition) holds Undefined when absent and Some(v) otherwise.   *)
(***************************************************************************)
EXTENDS Integers, Sequences, FiniteSets, TLC

VARIABLES
    gameState,          \* GameEngine.gameState
    isRunning,          \* GameEngine.isRunning
    animationFrameId,   \* GameEngine.animationFrameId (0 is null)
    pendingFrames,      \* requestAnimationFrame callbacks not yet run
    calls,              \* the latest step: the method entered, then the calls it made
    rendered,           \* the state the latest step handed to updateCallback, if any
    ticks,              \* number of update passes run so far
    born,               \* born[id]: the value of ticks when projectile (power-up) id was created
    gameScreen,         \* GameContainer's gameScreen: "start", "playing" or "gameOver"
    timers,             \* GameContainer's setTimeout callbacks not yet run
    enemySpeedIncrease, \* GameContainer's enemySpeedIncrease, in hundredths
    probe               \* the latest direct call of a utility: its arguments and result

vars == <<gameState, isRunning, animationFrameId, pendingFrames, calls,
          rendered, ticks, born, gameScreen, timers, enemySpeedIncrease, probe>>

\* what the engine does not touch: the container's screen, timers and
\* difficulty, and the utilities' call record
hostVars == <<gameScreen, timers, enemySpeedIncrease, probe>>

(***************************************************************************)
(* Bounds of the model.                                                    *)
(***************************************************************************)
MaxTicks == 3
MaxShots == 1
MaxFrames == 2

(***************************************************************************)
(* Program constants.                                                      *)
(***************************************************************************)
HP == 10
SPEED_UNIT == 2
SHOT_RANGE == 600
SIZES_projectile == 5
SIZES_enemy == 40
WRAPPING_THRESHOLDS_enemy == 21
ENEMY_POINT_VALUE == 150
ENEMY_POINT_MULTIPLER == 1
MUZZLE_DISTANCE == 30
PROJECTILE_SIZE == 5
DEFAULT_DAMAGE == 20
DEFAULT_SPEED == 10
DEFAULT_WIDTH == 800
DEFAULT_HEIGHT == 600
SAFETY_MARGIN == 1
EDGE_MARGIN == 70
PLAYER_PUSH_FORCE == 20
ENEMY_PUSH_FORCE == 3
INITIAL_IMPACT_DAMAGE == 5
ENEMY_BASE_DAMAGE == 2
DAMAGE_MITIGATION == 3
OBSTACLE_HEALTH == 100
POWERUP_SIZE == 30
SPEED_DURATION == 8000
PLAYER_MAX_HEALTH == 100
ENEMY_BASE_HEALTH == 50
NullFrame == 0
FALLBACK_WIDTH == 800
FALLBACK_HEIGHT == 600
TEST_THRESHOLD == 40
RAPIDFIRE_DURATION == 6000
SHIELD_DURATION == 7000
WRAPPING_THRESHOLDS_player == 21
WRAPPING_THRESHOLDS_projectile == 5
PLAYER_SPEED == 3
ENEMY_SPEED_MAX_CAP == 2
\* the difficulty constants, in hundredths of a pixel per tick
ENEMY_SPEED_MIN == 30
ENEMY_SPEED_MAX == 90
ENEMY_SPEED_INCREASE_PER_KILL == 2
ENEMY_SPEED_RANDOMNESS == 2
SPEED_CAP == ENEMY_SPEED_MAX_CAP * 100
MAX_ENEMIES == 5
MIN_ENEMIES == 2
ENEMY_SPAWN_INTERVAL_MIN == 4000
MAX_ACTIVE_POWERUPS == 3
HEALTH_BONUS == 30
GAME_OVER_DELAY == 500
RESTART_DELAY == 100
RESPAWN_DELAY == 3000

Undefined == [some |-> FALSE]

Some(v) == [some |-> TRUE, v |-> v]

(***************************************************************************)
(* Arithmetic helpers.                                                     *)
(***************************************************************************)
Abs(n) == IF n < 0 THEN -n ELSE n

Sign(n) == IF n > 0 THEN 1 ELSE IF n < 0 THEN -1 ELSE 0

\* Math.floor(Math.sqrt(n)) for an integer n >= 0
ISqrt(n) == CHOOSE r \in 0..n : r * r <= n /\ (r + 1) * (r + 1) > n

\* Math.cos / Math.sin of an angle given in quarter turns
Cos(r) == CASE r % 4 = 0 -> 1 [] r % 4 = 1 -> 0 [] r % 4 = 2 -> -1 [] OTHER -> 0

Sin(r) == CASE r % 4 = 0 -> 0 [] r % 4 = 1 -> 1 [] r % 4 = 2 -> 0 [] OTHER -> -1

\* Math.atan2(dy, dx), to the nearest quarter turn, in (-2, 2]
Atan2(dy, dx) ==
    IF Abs(dx) >= Abs(dy)
    THEN (IF dx >= 0 THEN 0 ELSE 2)
    ELSE (IF dy > 0 THEN 1 ELSE -1)

\* JavaScript truthiness of an optional number: undefined and 0 are falsy
Truthy(o) == o.some /\ o.v # 0

Pos(x, y) == [x |-> x, y |-> y]

Dist2(a, b) ==
    (a.x - b.x) * (a.x - b.x) + (a.y - b.y) * (a.y - b.y)

\* force * d / sqrt(dist2), rounded to the nearest integer (dist2 > 0)
PushComponent(force, d, dist2) ==
    LET t == force * Abs(d)
        r == CHOOSE k \in 0..force :
                 /\ (k = 0 \/ (2 * k - 1) * (2 * k - 1) * dist2 <= 4 * t * t)
                 /\ (2 * k + 1) * (2 * k + 1) * dist2 > 4 * t * t
    IN  Sign(d) * r

(***************************************************************************)
(* Geometry: PhysicsSystem's hit tests and the utilities of utils/position *)
(* and utils/collision that the entity update calls.                       *)
(***************************************************************************)
\* faulty variant: the distance is compared with the first object's width
isColliding_ownWidth(obj1, obj2) ==
    Dist2(obj1.position, obj2.position) < obj1.width * obj1.width

\* distance < (obj1.width + obj2.width) / 2, both sides squared and doubled
isColliding(obj1, obj2) ==
    4 * Dist2(obj1.position, obj2.position)
        < (obj1.width + obj2.width) * (obj1.width + obj2.width)

\* the four comparisons of the source, each multiplied by two
isCollidingRectangles(rect1, rect2) ==
    /\ 2 * rect1.position.x - rect1.width < 2 * rect2.position.x + rect2.width
    /\ 2 * rect1.position.x + rect1.width > 2 * rect2.position.x - rect2.width
    /\ 2 * rect1.position.y - rect1.height < 2 * rect2.position.y + rect2.height
    /\ 2 * rect1.position.y + rect1.height > 2 * rect2.position.y - rect2.height

\* one axis of utils/position.calculateWrappedPosition
WrapAxis(v, L, dimension) ==
    IF v <= L THEN dimension - L - 2
    ELSE IF v >= dimension - L - 1 THEN L + 1
    ELSE v

\* null, which is not undefined
Null == [some |-> FALSE, null |-> TRUE]

\* typeof obj[field] === 'number', for an object whose fields are numbers
IsNumber(obj, field) == field \in DOMAIN obj

\* the default value of the parameter `space`
DefaultSpace == [width |-> FALLBACK_WIDTH, height |-> FALLBACK_HEIGHT]

\* lines 163-188: the body, run on the value the parameter has
WrapInSpace(x, y, L, space) ==
    IF space = Null \/ ~IsNumber(space, "width") \/ ~IsNumber(space, "height")
    THEN Pos(x, y)
    ELSE Pos(WrapAxis(x, L, space.width), WrapAxis(y, L, space.height))

\* utils/position.calculateWrappedPosition: an argument that is undefined
\* takes the parameter's default value
calculateWrappedPosition(x, y, L, space) ==
    WrapInSpace(x, y, L, IF space = Undefined THEN DefaultSpace ELSE space)

\* a JavaScript number that may be NaN
Number(v) == [nan |-> FALSE, v |-> v]

NaN == [nan |-> TRUE, v |-> 0]

\* obj[field] as a number operand: a missing field reads undefined, and
\* undefined in arithmetic is NaN
Field(obj, field) == IF field \in DOMAIN obj THEN Number(obj[field]) ELSE NaN

\* a + b and a > b on such numbers: NaN spreads, and compares false
Plus(a, b) == IF a.nan \/ b.nan THEN NaN ELSE Number(a.v + b.v)

Greater(a, b) == ~a.nan /\ ~b.nan /\ a.v > b.v

\* faulty variant: a coordinate on the threshold itself is wrapped as well
PhysicsWrapAxis_inclusive(v, threshold, dimension) ==
    IF v <= -threshold THEN Plus(dimension, Number(threshold))
    ELSE IF ~Greater(Plus(dimension, Number(threshold)), Number(v))
         THEN Number(-threshold)
         ELSE Number(v)

\* one axis of PhysicsSystem.calculateWrappedPosition (lines 129-133)
PhysicsWrapAxis(v, threshold, dimension) ==
    IF v < -threshold THEN Plus(dimension, Number(threshold))
    ELSE IF Greater(Number(v), Plus(dimension, Number(threshold)))
         THEN Number(-threshold)
         ELSE Number(v)

\* what a call that throws gives its caller
TypeError == [threw |-> TRUE]

\* PhysicsSystem.calculateWrappedPosition: reading dimensions.width throws
\* when dimensions is undefined or null
PhysicsSystem_calculateWrappedPosition(x, y, threshold, dimensions) ==
    IF dimensions = Undefined \/ dimensions = Null
    THEN TypeError
    ELSE [threw |-> FALSE,
          x |-> PhysicsWrapAxis(x, threshold, Field(dimensions, "width")),
          y |-> PhysicsWrapAxis(y, threshold, Field(dimensions, "height"))]

\* utils/collision.checkObstacleCollision: the test against one obstacle,
\* dx < halfWidth /\ dy < halfHeight, doubled
Intersects(position, size, obstacle) ==
    /\ 2 * Abs(position.x - obstacle.position.x)
           < size + obstacle.width + 2 * SAFETY_MARGIN
    /\ 2 * Abs(position.y - obstacle.position.y)
           < size + obstacle.height + 2 * SAFETY_MARGIN

NoCollision ==
    [collided |-> FALSE, collidedX |-> FALSE, collidedY |-> FALSE,
     correctedPosition |-> Undefined]

\* faulty variant: the push is along the axis of the larger overlap
Penetration_deeper(position, obstacle, overlapX, overlapY) ==
    IF overlapX > overlapY
    THEN [collided |-> TRUE, collidedX |-> TRUE,
          collidedY |-> overlapX < 2 /\ overlapY < 2,
          correctedPosition |->
              Some(Pos(position.x + (IF position.x < obstacle.position.x
                                     THEN -1 ELSE 1) * overlapX,
                       position.y))]
    ELSE [collided |-> TRUE, collidedY |-> TRUE,
          collidedX |-> overlapX < 2 /\ overlapY < 2,
          correctedPosition |->
              Some(Pos(position.x,
                       position.y + (IF position.y < obstacle.position.y
                                     THEN -1 ELSE 1) * overlapY))]

\* lines 31-58: what the loop's body decides about the obstacle it has hit
Penetration(position, obstacle, overlapX, overlapY) ==
    IF overlapX <= overlapY
    THEN [collided |-> TRUE, collidedX |-> TRUE,
          collidedY |-> overlapX < 2 /\ overlapY < 2,
          correctedPosition |->
              Some(Pos(position.x + (IF position.x < obstacle.position.x
                                     THEN -1 ELSE 1) * overlapX,
                       position.y))]
    ELSE [collided |-> TRUE, collidedY |-> TRUE,
          collidedX |-> overlapX < 2 /\ overlapY < 2,
          correctedPosition |->
              Some(Pos(position.x,
                       position.y + (IF position.y < obstacle.position.y
                                     THEN -1 ELSE 1) * overlapY))]

\* size + obstacle extent is even in every state of the model, so the halved
\* extents are whole pixels
HitObstacle(position, size, obstacle) ==
    Penetration(position, obstacle,
                (size + obstacle.width) \div 2 + SAFETY_MARGIN
                    - Abs(position.x - obstacle.position.x),
                (size + obstacle.height) \div 2 + SAFETY_MARGIN
                    - Abs(position.y - obstacle.position.y))

\* the obstacle at which the loop breaks
FirstHit(position, size, obstacles) ==
    CHOOSE i \in 1..Len(obstacles) :
        /\ Intersects(position, size, obstacles[i])
        /\ \A j \in 1..(i - 1) : ~Intersects(position, size, obstacles[j])

\* utils/collision.checkObstacleCollision
checkObstacleCollision(position, size, obstacles) ==
    IF \A i \in 1..Len(obstacles) : ~Intersects(position, size, obstacles[i])
    THEN NoCollision
    ELSE HitObstacle(position, size, obstacles[FirstHit(position, size, obstacles)])

\* the attempts findSafeSpawnPosition makes
MAX_SPAWN_ATTEMPTS == 50

\* margin + Math.random() * (extent - 2 * margin) on both axes, the two
\* random numbers of an attempt being draw.x / 4 and draw.y / 4
SamplePoint(width, height, margin, draw) ==
    Pos(margin + (draw.x * (width - 2 * margin)) \div 4,
        margin + (draw.y * (height - 2 * margin)) \div 4)

\* faulty variant: the first sample is returned whether it collides or not
findSafeSpawnPosition_firstSample(width, height, objectSize, obstacles, margin, draws) ==
    [position |-> SamplePoint(width, height, margin, draws[1]), attempts |-> 1]

RECURSIVE TrySpawn(_, _, _, _, _, _, _)
\* the loop of findSafeSpawnPosition from the count `attempts` on, then the
\* fallback to the center; draws are the random numbers of each attempt,
\* and the samples taken are counted with the position returned
TrySpawn(attempts, width, height, objectSize, obstacles, margin, draws) ==
    IF attempts >= MAX_SPAWN_ATTEMPTS
    THEN [position |-> Pos(width \div 2, height \div 2), attempts |-> attempts]
    ELSE IF ~checkObstacleCollision(
                 SamplePoint(width, height, margin, draws[attempts + 1]),
                 objectSize, obstacles).collided
    THEN [position |-> SamplePoint(width, height, margin, draws[attempts + 1]),
          attempts |-> attempts + 1]
    ELSE TrySpawn(attempts + 1, width, height, objectSize, obstacles, margin, draws)

\* utils/collision.findSafeSpawnPosition
findSafeSpawnPosition(width, height, objectSize, obstacles, margin, draws) ==
    TrySpawn(0, width, height, objectSize, obstacles, margin, draws)

\* utils/collision.isStuckAgainstObstacle
isStuckAgainstObstacle(currentPosition, size, rotation, obstacles) ==
    LET forward == Pos(currentPosition.x + Cos(rotation) * 5,
                       currentPosition.y + Sin(rotation) * 5)
        backward == Pos(currentPosition.x - Cos(rotation) * 5,
                        currentPosition.y - Sin(rotation) * 5)
    IN  /\ checkObstacleCollision(forward, size, obstacles).collided
        /\ checkObstacleCollision(backward, size, obstacles).collided

(***************************************************************************)
(* lib/enemies.updateEnemy.  rnd carries what the source draws from        *)
(* Date.now() and Math.random(): change is shouldChangeDirection, bucket   *)
(* is Math.floor(currentTime / 1000) % 3, center is shouldTurnToCenter.    *)
(* The random steering deviation is below a quarter turn and is dropped.   *)
(***************************************************************************)
Rnd == [change : BOOLEAN, bucket : 0..2, center : BOOLEAN]

TurnAngle(bucket) == CASE bucket = 0 -> 1 [] bucket = 1 -> -1 [] OTHER -> 2

\* lines 226-268: the fallback taken when a collision comes without a
\* corrected position; slid is the position after sliding
Unstick(slid, enemy, rotation, target, obstacles, obstacleCollision, rnd) ==
    IF ~(\/ isStuckAgainstObstacle(slid, enemy.width, rotation, obstacles)
         \/ (obstacleCollision.collidedX /\ obstacleCollision.collidedY))
    THEN [position |-> slid, targetRotation |-> Some(target)]
    ELSE IF ~checkObstacleCollision(
                 Pos(slid.x + Sin(rotation) * 2, slid.y - Cos(rotation) * 2),
                 enemy.width, obstacles).collided
    THEN [position |-> Pos(slid.x + Sin(rotation) * 2, slid.y - Cos(rotation) * 2),
          targetRotation |-> Some(target)]
    ELSE IF ~checkObstacleCollision(
                 Pos(slid.x - Sin(rotation) * 2, slid.y + Cos(rotation) * 2),
                 enemy.width, obstacles).collided
    THEN [position |-> Pos(slid.x - Sin(rotation) * 2, slid.y + Cos(rotation) * 2),
          targetRotation |-> Some(target)]
    ELSE [position |-> slid,
          targetRotation |-> Some(rotation + TurnAngle(rnd.bucket))]

\* lines 214-269: the move applied once the obstacles have been consulted
ApplyMovement(enemy, rotation, target, obstacles, ahead, obstacleCollision, rnd) ==
    IF ~obstacleCollision.collided
    THEN [position |-> ahead, targetRotation |-> Some(target)]
    ELSE IF obstacleCollision.correctedPosition # Undefined
    THEN [position |-> obstacleCollision.correctedPosition.v,
          targetRotation |-> Some(target)]
    ELSE Unstick(Pos(IF obstacleCollision.collidedX THEN enemy.position.x
                     ELSE ahead.x,
                     IF obstacleCollision.collidedY THEN enemy.position.y
                     ELSE ahead.y),
                 enemy, rotation, target, obstacles, obstacleCollision, rnd)

\* lines 197-269: the forward move, giving the position and targetRotation
MoveEnemy(enemy, rotation, target, obstacles, ahead, rnd) ==
    ApplyMovement(enemy, rotation, target, obstacles, ahead,
                  checkObstacleCollision(ahead, enemy.width, obstacles), rnd)

\* lines 184-194: the turn towards the target, rotationDiff being wrapped
Rotate(enemy, target, rotationDiff) ==
    IF Abs(rotationDiff) < enemy.rotationSpeed
    THEN target
    ELSE enemy.rotation + Sign(rotationDiff) * enemy.rotationSpeed

\* lines 188-189: the angle wrapping
WrapAngle(diff) ==
    IF diff > 2 THEN diff - 4
    ELSE IF diff < -2 THEN diff + 4
    ELSE diff

\* lines 271-303: the wrapped position and the turn towards the centre
Settle(enemy, rotation, moved, wrapped, canvasWidth, canvasHeight, rnd) ==
    [enemy EXCEPT
        !.targetRotation =
            IF /\ \/ wrapped.x < EDGE_MARGIN
                  \/ wrapped.x > canvasWidth - EDGE_MARGIN
                  \/ wrapped.y < EDGE_MARGIN
                  \/ wrapped.y > canvasHeight - EDGE_MARGIN
               /\ rnd.center
            THEN Some(Atan2(canvasHeight \div 2 - wrapped.y,
                            canvasWidth \div 2 - wrapped.x))
            ELSE moved.targetRotation,
        !.rotation = rotation,
        !.position = wrapped,
        !.cooldown = IF @ > 0 THEN @ - 1 ELSE @]

\* lines 197-280: move, then wrap at the screen edge
Advance(enemy, rotation, moved, canvasWidth, canvasHeight, rnd) ==
    Settle(enemy, rotation, moved,
           calculateWrappedPosition(moved.position.x, moved.position.y,
                                    WRAPPING_THRESHOLDS_enemy,
                                    [width |-> canvasWidth, height |-> canvasHeight]),
           canvasWidth, canvasHeight, rnd)

\* lines 184-280 for the rotation chosen
Drive(enemy, rotation, target, canvasWidth, canvasHeight, obstacles, rnd) ==
    Advance(enemy, rotation,
            MoveEnemy(enemy, rotation, target, obstacles,
                      Pos(enemy.position.x + Cos(rotation) * enemy.speed,
                          enemy.position.y + Sin(rotation) * enemy.speed),
                      rnd),
            canvasWidth, canvasHeight, rnd)

\* lines 170-194 for the target rotation chosen
Steer(enemy, target, canvasWidth, canvasHeight, obstacles, rnd) ==
    Drive(enemy, Rotate(enemy, target, WrapAngle(target - enemy.rotation)),
          target, canvasWidth, canvasHeight, obstacles, rnd)

updateEnemy(enemy, playerPosition, canvasWidth, canvasHeight, obstacles, rnd) ==
    Steer(enemy,
          IF rnd.change \/ enemy.targetRotation = Undefined
          THEN Atan2(playerPosition.y - enemy.position.y,
                     playerPosition.x - enemy.position.x)
          ELSE enemy.targetRotation.v,
          canvasWidth, canvasHeight, obstacles, rnd)

(***************************************************************************)
(* EntityManager                                                           *)
(***************************************************************************)
\* faulty variant: the cooldown is lowered without the test for zero
updatePlayer_countdown(player) == [player EXCEPT !.cooldown = @ - 1]

\* EntityManager.updatePlayer
updatePlayer(player) ==
    [player EXCEPT !.cooldown = IF @ > 0 THEN @ - 1 ELSE @]

\* EntityManager.updateEnemies
updateEnemies(enemies, player, gs, rnd) ==
    [i \in 1..Len(enemies) |->
        updateEnemy(enemies[i], player.position,
                    gs.dimensions.width, gs.dimensions.height,
                    gs.obstacles, rnd)]

\* faulty variant: the range is never looked at
updateProjectile_endless(projectile, gs) ==
    IF ~projectile.isActive THEN projectile
    ELSE [projectile EXCEPT
            !.position = calculateWrappedPosition(
                             @.x + Cos(projectile.rotation) * projectile.speed,
                             @.y + Sin(projectile.rotation) * projectile.speed,
                             SIZES_projectile, gs.dimensions),
            !.distanceTraveled = @ + projectile.speed]

\* the callback EntityManager.updateProjectiles maps over the projectiles
updateProjectile(projectile, gs) ==
    IF ~projectile.isActive THEN projectile
    ELSE
      LET moveX == Cos(projectile.rotation) * projectile.speed
          moveY == Sin(projectile.rotation) * projectile.speed
          stepDistance == ISqrt(moveX * moveX + moveY * moveY)
          totalDistance == projectile.distanceTraveled + stepDistance
      IN  IF totalDistance > SHOT_RANGE
          THEN [projectile EXCEPT !.isActive = FALSE]
          ELSE [projectile EXCEPT
                  !.position = calculateWrappedPosition(
                                   projectile.position.x + moveX,
                                   projectile.position.y + moveY,
                                   SIZES_projectile, gs.dimensions),
                  !.distanceTraveled = totalDistance]

updateProjectiles(projectiles, gs) ==
    [i \in 1..Len(projectiles) |-> updateProjectile(projectiles[i], gs)]

\* faulty variant: isPaused is not looked at
updateEntities_always(gs, rnd) ==
    [gs EXCEPT
        !.player = updatePlayer(gs.player),
        !.enemies = updateEnemies(gs.enemies, updatePlayer(gs.player), gs, rnd),
        !.projectiles = updateProjectiles(gs.projectiles, gs)]

\* EntityManager.updateEntities
updateEntities(gs, rnd) ==
    IF gs.isPaused THEN gs
    ELSE
      LET player == updatePlayer(gs.player)
      IN  [gs EXCEPT
              !.player = player,
              !.enemies = updateEnemies(gs.enemies, player, gs, rnd),
              !.projectiles = updateProjectiles(gs.projectiles, gs)]

\* faulty variant: the projectile starts at the position given
createProjectile_atTank(position, rotation, owner, damage, speed) ==
    [position |-> position, rotation |-> rotation,
     width |-> PROJECTILE_SIZE, height |-> PROJECTILE_SIZE,
     speed |-> speed, damage |-> damage, isActive |-> TRUE,
     distanceTraveled |-> 0, owner |-> owner]

\* EntityManager.createProjectile
createProjectile(position, rotation, owner, damage, speed) ==
    [position |-> Pos(position.x + Cos(rotation) * MUZZLE_DISTANCE,
                      position.y + Sin(rotation) * MUZZLE_DISTANCE),
     rotation |-> rotation,
     width |-> PROJECTILE_SIZE,
     height |-> PROJECTILE_SIZE,
     speed |-> speed,
     damage |-> damage,
     isActive |-> TRUE,
     distanceTraveled |-> 0,
     owner |-> owner]

\* faulty variant: the filter keeps only obstacles that have health left
ObstacleStays_healthy(o) == Truthy(o.health) /\ o.health.v > 0

\* the predicate of cleanup's obstacle filter
ObstacleStays(o) ==
    ~o.isDestructible \/ ~Truthy(o.health) \/ o.health.v > 0

\* EntityManager.cleanup
\* faulty variant: only the projectiles are filtered
cleanup_projectilesOnly(gs) ==
    [gs EXCEPT !.projectiles = SelectSeq(@, LAMBDA p : p.isActive)]

cleanup(gs) ==
    [gs EXCEPT
        !.projectiles = SelectSeq(@, LAMBDA p : p.isActive),
        !.enemies = SelectSeq(@, LAMBDA e : e.health > 0),
        !.powerUps = SelectSeq(@, LAMBDA p : p.isActive),
        !.obstacles = SelectSeq(@, ObstacleStays)]

(***************************************************************************)
(* PhysicsSystem: the collision pass.  The source mutates the obstacles,   *)
(* the enemies and the player in place while it loops; each loop is a fold *)
(* here that threads the values mutated so far.                            *)
(***************************************************************************)
ProjectileRect(projectile) ==
    [position |-> projectile.position, width |-> projectile.width,
     height |-> projectile.height, rotation |-> 0]

\* the obstacle the inner for-loop breaks at, 0 when there is none
FirstObstacleHit(projectile, obstacles) ==
    LET hits == {i \in 1..Len(obstacles) :
                    isCollidingRectangles(ProjectileRect(projectile), obstacles[i])}
    IN  IF hits = {} THEN 0 ELSE CHOOSE i \in hits : \A j \in hits : i <= j

\* lines 194-197: the damage one hit does to an obstacle
DamageObstacle(obstacle, projectile) ==
    IF obstacle.isDestructible /\ Truthy(obstacle.health)
    THEN [obstacle EXCEPT !.health = Some(@.v - projectile.damage * HP)]
    ELSE obstacle

RECURSIVE ProjectilesVsObstacles(_, _, _, _)
\* lines 185-202, from projectile `index` on
ProjectilesVsObstacles(index, projectiles, obstacles, collided) ==
    IF index > Len(projectiles)
    THEN [obstacles |-> obstacles, collided |-> collided]
    ELSE
      LET projectile == projectiles[index]
          hit == FirstObstacleHit(projectile, obstacles)
      IN  IF ~projectile.isActive \/ hit = 0
          THEN ProjectilesVsObstacles(index + 1, projectiles, obstacles, collided)
          ELSE ProjectilesVsObstacles(
                   index + 1, projectiles,
                   [obstacles EXCEPT ![hit] = DamageObstacle(@, projectile)],
                   collided \cup {index})

\* lines 211-215 and 224-228: the hit test of a projectile against a tank
HitsTank(projectile, tank) ==
    /\ isColliding(projectile, tank)
    /\ projectile.position.x # tank.position.x
    /\ projectile.position.y # tank.position.y

RECURSIVE ProjectilesVsTanks(_, _, _, _, _, _)
\* lines 205-236, from projectile `index` on; collided starts as the set of
\* projectiles that hit an obstacle
ProjectilesVsTanks(index, projectiles, enemies, player, shield, collided) ==
    IF index > Len(projectiles)
    THEN [enemies |-> enemies, player |-> player, collided |-> collided]
    ELSE
      LET projectile == projectiles[index]
      IN  IF ~projectile.isActive \/ index \in collided
          THEN ProjectilesVsTanks(index + 1, projectiles, enemies, player,
                                  shield, collided)
          ELSE IF projectile.owner = "player"
          THEN ProjectilesVsTanks(
                   index + 1, projectiles,
                   [j \in 1..Len(enemies) |->
                       IF HitsTank(projectile, enemies[j])
                       THEN [enemies[j] EXCEPT
                                !.health = @ - projectile.damage * HP]
                       ELSE enemies[j]],
                   player, shield,
                   IF \E j \in 1..Len(enemies) : HitsTank(projectile, enemies[j])
                   THEN collided \cup {index} ELSE collided)
          ELSE IF HitsTank(projectile, player)
          THEN ProjectilesVsTanks(
                   index + 1, projectiles, enemies,
                   IF ~shield
                   THEN [player EXCEPT !.health = @ - projectile.damage * HP]
                   ELSE player,
                   shield, collided \cup {index})
          ELSE ProjectilesVsTanks(index + 1, projectiles, enemies, player,
                                  shield, collided)

\* PhysicsSystem.handleProjectileCollisions: the projectiles it returns and
\* the obstacles, enemies and player it has mutated
handleProjectileCollisions(gs) ==
    LET first == ProjectilesVsObstacles(1, gs.projectiles, gs.obstacles, {})
        second == ProjectilesVsTanks(1, gs.projectiles, gs.enemies, gs.player,
                                     gs.powerUpEffects.shield, first.collided)
    IN  [projectiles |->
            [i \in 1..Len(gs.projectiles) |->
                IF i \in second.collided
                THEN [gs.projectiles[i] EXCEPT !.isActive = FALSE]
                ELSE gs.projectiles[i]],
         obstacles |-> first.obstacles,
         enemies |-> second.enemies,
         player |-> second.player]

\* Math.floor(Math.sqrt(x * x + y * y) * factor), the components x and y
\* given in units of 1 / SPEED_UNIT
ScaledSpeed(x, y, factor) ==
    ISqrt((factor * factor * (x * x + y * y)) \div (SPEED_UNIT * SPEED_UNIT))

\* faulty variant: tanks on the same spot are pushed apart along x
Push_alongX(force, dx, dy) ==
    IF dx * dx + dy * dy > 0
    THEN Pos(PushComponent(force, dx, dx * dx + dy * dy),
             PushComponent(force, dy, dx * dx + dy * dy))
    ELSE Pos(force, 0)

\* the separating push of `force` along (dx, dy), zero when both are zero
Push(force, dx, dy) ==
    IF dx * dx + dy * dy > 0
    THEN Pos(PushComponent(force, dx, dx * dx + dy * dy),
             PushComponent(force, dy, dx * dx + dy * dy))
    ELSE Pos(0, 0)

Moved(tank, push, sign) ==
    [tank EXCEPT !.position = Pos(@.x + sign * push.x, @.y + sign * push.y)]

RECURSIVE PlayerVsEnemies(_, _, _, _)
\* lines 255-298, from enemy `index` on
PlayerVsEnemies(index, player, enemies, effects) ==
    IF index > Len(enemies)
    THEN [player |-> player, enemies |-> enemies]
    ELSE
      LET enemy == enemies[index]
          relVelX == Cos(player.rotation) * player.speed * effects.speed
                         - Cos(enemy.rotation) * enemy.speed * SPEED_UNIT
          relVelY == Sin(player.rotation) * player.speed * effects.speed
                         - Sin(enemy.rotation) * enemy.speed * SPEED_UNIT
          collisionDamage == INITIAL_IMPACT_DAMAGE + ScaledSpeed(relVelX, relVelY, 3)
          push == Push(PLAYER_PUSH_FORCE,
                       player.position.x - enemy.position.x,
                       player.position.y - enemy.position.y)
          hurtPlayer ==
              IF ~effects.shield
              THEN [player EXCEPT
                       !.health = @ - collisionDamage * (HP - DAMAGE_MITIGATION)]
              ELSE player
          hurtEnemy == [enemy EXCEPT !.health = @ - collisionDamage * HP]
      IN  IF ~isColliding(player, enemy)
          THEN PlayerVsEnemies(index + 1, player, enemies, effects)
          ELSE PlayerVsEnemies(
                   index + 1, Moved(hurtPlayer, push, 1),
                   [enemies EXCEPT ![index] = Moved(hurtEnemy, push, -1)],
                   effects)

\* the pair after (i, j) in the nested loops of lines 301-302
NextPair(i, j, n) == IF j < n THEN <<i, j + 1>> ELSE <<i + 1, i + 2>>

RECURSIVE EnemyVsEnemy(_, _, _)
\* lines 301-343, from the pair (i, j) on
EnemyVsEnemy(i, j, enemies) ==
    IF j > Len(enemies) THEN enemies
    ELSE
      LET enemy1 == enemies[i]
          enemy2 == enemies[j]
          relVelX == (Cos(enemy1.rotation) * enemy1.speed
                          - Cos(enemy2.rotation) * enemy2.speed) * SPEED_UNIT
          relVelY == (Sin(enemy1.rotation) * enemy1.speed
                          - Sin(enemy2.rotation) * enemy2.speed) * SPEED_UNIT
          collisionDamage == ENEMY_BASE_DAMAGE + ScaledSpeed(relVelX, relVelY, 1)
          push == Push(ENEMY_PUSH_FORCE,
                       enemy1.position.x - enemy2.position.x,
                       enemy1.position.y - enemy2.position.y)
          next == NextPair(i, j, Len(enemies))
      IN  IF ~isColliding(enemy1, enemy2)
          THEN EnemyVsEnemy(next[1], next[2], enemies)
          ELSE EnemyVsEnemy(
                   next[1], next[2],
                   [enemies EXCEPT
                       ![i] = Moved([enemy1 EXCEPT
                                        !.health = @ - collisionDamage * HP],
                                    push, 1),
                       ![j] = Moved([enemy2 EXCEPT
                                        !.health = @ - collisionDamage * HP],
                                    push, -1)])

\* PhysicsSystem.handleTankCollisions: the player and enemies it has mutated
handleTankCollisions(gs) ==
    LET first == PlayerVsEnemies(1, gs.player, gs.enemies, gs.powerUpEffects)
    IN  [player |-> first.player,
         enemies |-> EnemyVsEnemy(1, 2, first.enemies)]

\* PhysicsSystem.handlePowerUpCollisions
handlePowerUpCollisions(gs) ==
    [i \in 1..Len(gs.powerUps) |->
        IF gs.powerUps[i].isActive /\ isColliding(gs.powerUps[i], gs.player)
        THEN [gs.powerUps[i] EXCEPT !.isActive = FALSE]
        ELSE gs.powerUps[i]]

\* the state once handleProjectileCollisions has mutated it; the
\* projectiles it returns are put in by handleCollisions' return
AfterShots(gs, shot) ==
    [gs EXCEPT !.projectiles = shot.projectiles,
               !.obstacles = shot.obstacles,
               !.enemies = shot.enemies,
               !.player = shot.player]

\* the state once handleTankCollisions has mutated it
AfterRams(gs, rammed) ==
    [gs EXCEPT !.player = rammed.player, !.enemies = rammed.enemies]

\* the state with the power-ups handlePowerUpCollisions returns
AfterPickups(gs) ==
    [gs EXCEPT !.powerUps = handlePowerUpCollisions(gs)]

ShootTanks(gs) == AfterShots(gs, handleProjectileCollisions(gs))

RamTanks(gs) == AfterRams(gs, handleTankCollisions(gs))

\* PhysicsSystem.handleCollisions
handleCollisions(gs) == AfterPickups(RamTanks(ShootTanks(gs)))

(***************************************************************************)
(* The states the host hands to the engine.                                *)
(***************************************************************************)
Tank(position, rotation, health, maxHealth, speed, cooldown, maxCooldown, isPlayer) ==
    [position |-> position, rotation |-> rotation,
     width |-> SIZES_enemy, height |-> SIZES_enemy,
     health |-> health * HP, maxHealth |-> maxHealth * HP,
     speed |-> speed, rotationSpeed |-> 1,
     cooldown |-> cooldown, maxCooldown |-> maxCooldown,
     isPlayer |-> isPlayer, targetRotation |-> Undefined]

\* lib/obstacles.createObstacle, the health being what is left of it
createObstacle(position, width, height, isDestructible, health) ==
    [position |-> position, rotation |-> 0, width |-> width, height |-> height,
     isDestructible |-> isDestructible,
     health |-> IF isDestructible THEN Some(health * HP) ELSE Undefined]

\* lib/powerups.createPowerUp
createPowerUp(position, type) ==
    [position |-> position, rotation |-> 0, type |-> type,
     width |-> POWERUP_SIZE, height |-> POWERUP_SIZE,
     duration |-> CASE type = "health" -> 0
                    [] type = "speed" -> SPEED_DURATION
                    [] type = "rapidFire" -> RAPIDFIRE_DURATION
                    [] type = "shield" -> SHIELD_DURATION,
     isActive |-> TRUE]

\* what is left of the health of the player, the enemy and the crate
Wear == {[player |-> PLAYER_MAX_HEALTH, enemy |-> ENEMY_BASE_HEALTH,
          crate |-> OBSTACLE_HEALTH],
         [player |-> 20, enemy |-> 20, crate |-> 20],
         [player |-> 10, enemy |-> 10, crate |-> 10]}

InitialState(wear) ==
    [player |-> Tank(Pos(100, 100), 0, wear.player, PLAYER_MAX_HEALTH, 5, 2, 30, TRUE),
     enemies |-> <<Tank(Pos(142, 110), 2, wear.enemy, ENEMY_BASE_HEALTH,
                        2, 1, 120, FALSE)>>,
     projectiles |-> <<>>,
     obstacles |-> <<createObstacle(Pos(100, 40), 40, 40, FALSE, 0),
                     createObstacle(Pos(100, 160), 40, 40, TRUE, wear.crate)>>,
     powerUps |-> <<createPowerUp(Pos(50, 95), "speed")>>,
     score |-> 0,
     isGameOver |-> FALSE,
     isPaused |-> FALSE,
     powerUpEffects |-> [speed |-> SPEED_UNIT, shield |-> FALSE, rapidFire |-> FALSE],
     dimensions |-> [width |-> DEFAULT_WIDTH, height |-> DEFAULT_HEIGHT]]

Init ==
    /\ \E wear \in Wear : gameState = InitialState(wear)
    /\ isRunning = FALSE
    /\ animationFrameId = NullFrame
    /\ pendingFrames = {}
    /\ calls = <<>>
    /\ rendered = Undefined
    /\ ticks = 0
    /\ born = <<>>
    /\ gameScreen = "start"
    /\ timers = <<>>
    /\ enemySpeedIncrease = 0
    /\ probe = Undefined

(***************************************************************************)
(* GameEngine                                                              *)
(***************************************************************************)
\* faulty variant: cleanup runs before the collision pass
update_sweepFirst(gs, rnd) == handleCollisions(cleanup(updateEntities(gs, rnd)))

\* GameEngine.update
update(gs, rnd) == cleanup(handleCollisions(updateEntities(gs, rnd)))

\* the identifier requestAnimationFrame returns: one no pending callback has
\* and the engine does not hold
FreshFrame(frames) ==
    CHOOSE id \in 1..(MaxFrames + 2) :
        /\ id \notin frames \cup {animationFrameId}
        /\ \A other \in 1..(MaxFrames + 2) :
               other \notin frames \cup {animationFrameId} => id <= other

\* faulty variant: the loop does not look at isRunning
gaveUp_never(running) == FALSE

\* GameEngine.gameLoop gives up at once unless the engine is running
gaveUp(running) == ~running

\* faulty variant: the loop goes on updating a paused game
shouldUpdate_whilePaused(gs) == ~gs.isGameOver

\* GameEngine.gameLoop updates the state only while the game is on
shouldUpdate(gs) == ~gs.isGameOver /\ ~gs.isPaused

\* GameEngine.gameLoop entered from `entry`, frames being the callbacks
\* still pending
gameLoop(entry, frames) ==
    IF gaveUp(isRunning')
    THEN /\ calls' = <<entry>>
         /\ pendingFrames' = frames
         /\ rendered' = Undefined
         /\ UNCHANGED <<gameState, ticks, animationFrameId>>
    ELSE /\ IF shouldUpdate(gameState)
            THEN /\ ticks < MaxTicks
                 /\ \E rnd \in Rnd : gameState' = update(gameState, rnd)
                 /\ ticks' = ticks + 1
                 /\ calls' = <<entry, "updateEntities", "handleCollisions",
                               "cleanup", "updateCallback">>
            ELSE /\ UNCHANGED <<gameState, ticks>>
                 /\ calls' = <<entry, "updateCallback">>
         /\ rendered' = Some(gameState')
         /\ animationFrameId' = FreshFrame(frames)
         /\ pendingFrames' = frames \cup {FreshFrame(frames)}

\* GameEngine.start
Start ==
    /\ Cardinality(pendingFrames) < MaxFrames
    /\ isRunning' = TRUE
    /\ gameLoop("start", pendingFrames)
    /\ UNCHANGED <<born, hostVars>>

\* the browser runs a pending animation-frame callback
AnimationFrame ==
    \E id \in pendingFrames :
        /\ isRunning' = isRunning
        /\ gameLoop("gameLoop", pendingFrames \ {id})
        /\ UNCHANGED <<born, hostVars>>

\* GameEngine.stop
Stop ==
    /\ isRunning' = FALSE
    /\ animationFrameId' = NullFrame
    /\ pendingFrames' = pendingFrames \ {animationFrameId}
    /\ calls' = IF animationFrameId # NullFrame
                THEN <<"stop", "cancelAnimationFrame">>
                ELSE <<"stop">>
    /\ rendered' = Undefined
    /\ UNCHANGED <<gameState, ticks, born, hostVars>>

\* faulty variant: pausing also ends the loop
Pause_stopsLoop ==
    /\ gameState' = [gameState EXCEPT !.isPaused = TRUE]
    /\ isRunning' = FALSE
    /\ animationFrameId' = NullFrame
    /\ pendingFrames' = pendingFrames \ {animationFrameId}
    /\ calls' = <<"pause">>
    /\ rendered' = Undefined
    /\ UNCHANGED <<ticks, born, hostVars>>

\* GameEngine.pause
Pause ==
    /\ gameState' = [gameState EXCEPT !.isPaused = TRUE]
    /\ calls' = <<"pause">>
    /\ rendered' = Undefined
    /\ UNCHANGED <<isRunning, animationFrameId, pendingFrames, ticks, born, hostVars>>

\* GameEngine.resume
Resume ==
    /\ gameState' = [gameState EXCEPT !.isPaused = FALSE]
    /\ calls' = <<"resume">>
    /\ rendered' = Undefined
    /\ UNCHANGED <<isRunning, animationFrameId, pendingFrames, ticks, born, hostVars>>

\* a speed at which a projectile covers SHOT_RANGE in two ticks
FAST_SPEED == SHOT_RANGE \div 2

\* the shots a host asks for: who fires (0 the player, i the i-th enemy),
\* the aim and the projectile speed; an enemy fires the way it faces
Shots(gs) ==
    {[who |-> 0, aim |-> aim, speed |-> DEFAULT_SPEED] : aim \in 0..3}
    \cup {[who |-> 0, aim |-> 2, speed |-> FAST_SPEED]}
    \cup {[who |-> i, aim |-> gs.enemies[i].rotation % 4, speed |-> DEFAULT_SPEED] :
              i \in 1..Len(gs.enemies)}

Shooter(gs, who) == IF who = 0 THEN gs.player ELSE gs.enemies[who]

\* GameEngine.updateState with the projectiles extended by a projectile
\* EntityManager.createProjectile has made (id is the object's identity)
Fire ==
    /\ Len(born) < MaxShots
    /\ \E shot \in Shots(gameState) :
          gameState' =
              [gameState EXCEPT
                  !.projectiles =
                      Append(@, createProjectile(
                                    Shooter(gameState, shot.who).position, shot.aim,
                                    IF shot.who = 0 THEN "player" ELSE "enemy",
                                    DEFAULT_DAMAGE, shot.speed)
                                @@ [id |-> Len(born) + 1])]
    /\ born' = Append(born, ticks)
    /\ calls' = <<"updateState">>
    /\ rendered' = Undefined
    /\ UNCHANGED <<isRunning, animationFrameId, pendingFrames, ticks, hostVars>>

\* GameEngine.updateState({ isGameOver: true })
EndGame ==
    /\ ~gameState.isGameOver
    /\ gameState' = [gameState EXCEPT !.isGameOver = TRUE]
    /\ calls' = <<"updateState">>
    /\ rendered' = Undefined
    /\ UNCHANGED <<isRunning, animationFrameId, pendingFrames, ticks, born, hostVars>>

Next ==
    \/ Start
    \/ AnimationFrame
    \/ Stop
    \/ Pause
    \/ Resume
    \/ Fire
    \/ EndGame

Spec == Init /\ [][Next]_vars

(***************************************************************************)
(* Vocabulary of the properties                                            *)
(***************************************************************************)
\* the engine method the latest step entered
Entry(c) == IF c = <<>> THEN "none" ELSE Head(c)

\* how often the latest step made the call `name`
Count(c, name) == Cardinality({i \in DOMAIN c : i > 1 /\ c[i] = name})

UpdateSteps == <<"updateEntities", "handleCollisions", "cleanup">>

\* the step is a pass of gameLoop made while the engine is running
IsTick == isRunning' /\ Entry(calls') \in {"start", "gameLoop"}

\* the step is a tick on which the game is neither paused nor over
IsUpdateTick == IsTick /\ ~gameState.isPaused /\ ~gameState.isGameOver

(***************************************************************************)
(* C1: every tick made while the engine is running hands the current state *)
(* to the renderer callback exactly once; the three update steps run on    *)
(* that tick exactly when the game is neither paused nor over, and a tick  *)
(* made while it is paused or over leaves the state as it was.             *)
(***************************************************************************)
C1_TickRendersOnce ==
    [][IsTick =>
          /\ Count(calls', "updateCallback") = 1
          /\ rendered' = Some(gameState')
          /\ \A i \in 1..3 :
                 Count(calls', UpdateSteps[i]) > 0
                     <=> (~gameState.isPaused /\ ~gameState.isGameOver)
          /\ (gameState.isPaused \/ gameState.isGameOver)
                 => gameState' = gameState]_vars

\* a running engine has just ticked while the game was paused
C1_Witness ==
    /\ isRunning
    /\ gameState.isPaused
    /\ ticks > 0
    /\ calls = <<"gameLoop", "updateCallback">>
    /\ rendered = Some(gameState)

(***************************************************************************)
(* C2: on a tick with the game neither paused nor over, updateEntities,    *)
(* handleCollisions and cleanup run once each in that order, each on the   *)
(* result of the one before, and the callback then gets the final state.   *)
(***************************************************************************)
C2_UpdateOrder ==
    [][IsUpdateTick =>
          /\ SubSeq(calls', 2, Len(calls')) = UpdateSteps \o <<"updateCallback">>
          /\ \E rnd \in Rnd :
                LET entities == updateEntities(gameState, rnd)
                    collided == handleCollisions(entities)
                    cleaned == cleanup(collided)
                IN  /\ gameState' = cleaned
                    /\ rendered' = Some(cleaned)]_vars

\* an update tick on which a projectile was moved, hit something and was
\* swept away
C2_Witness ==
    /\ Entry(calls) = "gameLoop"
    /\ Len(calls) = 5
    /\ Len(born) = 1
    /\ ticks = born[1] + 1
    /\ gameState.projectiles = <<>>

(***************************************************************************)
(* C3: once stop() has run, no tick executes until start() is called: no   *)
(* update step and no renderer callback is invoked, and the loop leaves    *)
(* the state alone.                                                        *)
(***************************************************************************)
C3_StoppedIsSilent ==
    [][~isRunning' =>
          /\ \A i \in 1..3 : Count(calls', UpdateSteps[i]) = 0
          /\ Count(calls', "updateCallback") = 0
          /\ rendered' = Undefined
          /\ ticks' = ticks
          /\ Entry(calls') \in {"gameLoop", "stop"} => gameState' = gameState]_vars

\* a callback left over from an earlier start() has run on a stopped engine
\* whose game was still on
C3_Witness ==
    /\ ~isRunning
    /\ calls = <<"gameLoop">>
    /\ ticks > 0
    /\ shouldUpdate(gameState)

(***************************************************************************)
(* C4: pause() sets isPaused and resume() clears it; neither changes       *)
(* another field of the state nor the loop's schedule, so a running engine *)
(* keeps ticking while paused, and a tick of a resumed game runs the       *)
(* update steps.                                                           *)
(***************************************************************************)
C4_PauseResume ==
    [][/\ Entry(calls') = "pause"
            => /\ gameState' = [gameState EXCEPT !.isPaused = TRUE]
               /\ UNCHANGED <<isRunning, animationFrameId, pendingFrames>>
       /\ Entry(calls') = "resume"
            => /\ gameState' = [gameState EXCEPT !.isPaused = FALSE]
               /\ UNCHANGED <<isRunning, animationFrameId, pendingFrames>>
       /\ IsTick
            => /\ animationFrameId' \in pendingFrames'
               /\ Count(calls', "updateCallback") = 1
       /\ (IsTick /\ ~gameState.isPaused /\ ~gameState.isGameOver)
            => /\ Count(calls', "updateEntities") = 1
               /\ gameState'.isPaused = FALSE]_vars

\* a game that was paused after some ticks has just been resumed, and its
\* next tick is still scheduled
C4_Witness ==
    /\ calls = <<"resume">>
    /\ isRunning
    /\ ticks > 0
    /\ ticks < MaxTicks
    /\ ~gameState.isPaused
    /\ ~gameState.isGameOver
    /\ animationFrameId \in pendingFrames

(***************************************************************************)
(* C5: a player whose health is zero or less at the end of the collision   *)
(* pass is left by that tick with health 0 in a game that is over.         *)
(***************************************************************************)
C5_DeadPlayerEndsGame ==
    gameState.player.health <= 0
        => gameState.player.health = 0 /\ gameState.isGameOver

(***************************************************************************)
(* C6: an enemy whose health a player's projectile brings to zero or less  *)
(* is gone after the tick's cleanup, and the score grows by                *)
(* ENEMY_POINT_VALUE * ENEMY_POINT_MULTIPLER for each such enemy.          *)
(***************************************************************************)
\* the enemies of `entities` the projectile pass destroys
Destroyed(entities) ==
    {i \in 1..Len(entities.enemies) :
        /\ entities.enemies[i].health > 0
        /\ handleProjectileCollisions(entities).enemies[i].health <= 0}

C6_KillScores ==
    [][IsUpdateTick =>
          \E rnd \in Rnd :
              /\ gameState' = update(gameState, rnd)
              /\ Len(gameState'.enemies)
                     <= Len(gameState.enemies)
                            - Cardinality(Destroyed(updateEntities(gameState, rnd)))
              /\ gameState'.score =
                     gameState.score
                         + ENEMY_POINT_VALUE * ENEMY_POINT_MULTIPLER
                               * Cardinality(Destroyed(updateEntities(gameState, rnd)))]_vars

(***************************************************************************)
(* C7: no destructible obstacle whose health is zero or less, exactly zero *)
(* included, is left in the state by a cleanup.                            *)
(***************************************************************************)
C7_DeadObstacleGone ==
    \A i \in 1..Len(gameState.obstacles) :
        (gameState.obstacles[i].isDestructible /\ gameState.obstacles[i].health.some)
            => gameState.obstacles[i].health.v > 0

(***************************************************************************)
(* C8: an obstacle that is not destructible is never changed or removed,   *)
(* whatever hits it, and a tick deactivates every active projectile that   *)
(* overlaps it after moving.                                               *)
(***************************************************************************)
Indestructible(gs) == SelectSeq(gs.obstacles, LAMBDA o : ~o.isDestructible)

OverlapsIndestructible(projectile, gs) ==
    \E i \in 1..Len(gs.obstacles) :
        /\ ~gs.obstacles[i].isDestructible
        /\ isCollidingRectangles(ProjectileRect(projectile), gs.obstacles[i])

C8_IndestructibleStays ==
    [][/\ Indestructible(gameState') = Indestructible(gameState)
       /\ IsUpdateTick =>
             \E rnd \in Rnd :
                 /\ gameState' = update(gameState, rnd)
                 /\ \A i \in 1..Len(gameState.projectiles) :
                        OverlapsIndestructible(
                            updateEntities(gameState, rnd).projectiles[i], gameState)
                          => /\ ~handleCollisions(updateEntities(gameState, rnd))
                                      .projectiles[i].isActive
                             /\ \A j \in 1..Len(gameState'.projectiles) :
                                    gameState'.projectiles[j].id
                                        # gameState.projectiles[i].id]_vars

\* the player's shot at the wall north of it is gone one tick after it was
\* fired, the wall is as it was, and nothing else has been hit
C8_Witness ==
    /\ Len(born) = 1
    /\ ticks = born[1] + 1
    /\ Len(calls) = 5
    /\ gameState.projectiles = <<>>
    /\ Len(Indestructible(gameState)) = 1
    /\ gameState.obstacles = InitialState(CHOOSE w \in Wear : w.crate = 20).obstacles
    /\ gameState.player.health = 20 * HP
    /\ Len(gameState.enemies) = 1
    /\ gameState.enemies[1].health = 20 * HP

(***************************************************************************)
(* C9: an update tick strictly increases the distanceTraveled of every     *)
(* projectile it keeps; the tick on which the distance would pass          *)
(* SHOT_RANGE removes the projectile instead; a projectile that has left   *)
(* the state never comes back; no projectile is in the state more than     *)
(* SHOT_RANGE \div speed update ticks after it was fired, so it is gone    *)
(* within that many ticks plus one; no stored distance exceeds SHOT_RANGE. *)
(***************************************************************************)
Ids(gs) == {gs.projectiles[i].id : i \in 1..Len(gs.projectiles)}

C9_ProjectileRange ==
    [][/\ \A i \in 1..Len(gameState'.projectiles) :
              /\ gameState'.projectiles[i].distanceTraveled <= SHOT_RANGE
              /\ gameState'.projectiles[i].speed > 0 =>
                     ticks' - born'[gameState'.projectiles[i].id]
                         <= SHOT_RANGE \div gameState'.projectiles[i].speed
       /\ Ids(gameState') \subseteq
              Ids(gameState) \cup (IF Len(born') > Len(born) THEN {Len(born')} ELSE {})
       /\ IsUpdateTick =>
              \A i \in 1..Len(gameState.projectiles) :
                  /\ gameState.projectiles[i].distanceTraveled
                         + gameState.projectiles[i].speed > SHOT_RANGE
                       => gameState.projectiles[i].id \notin Ids(gameState')
                  /\ \A j \in 1..Len(gameState'.projectiles) :
                         gameState'.projectiles[j].id = gameState.projectiles[i].id
                           => /\ gameState'.projectiles[j].isActive
                              /\ gameState'.projectiles[j].distanceTraveled
                                     > gameState.projectiles[i].distanceTraveled]_vars

\* a projectile has flown exactly SHOT_RANGE in SHOT_RANGE \div speed ticks,
\* and the tick that ends its flight can still be taken
C9_Witness ==
    /\ ticks < MaxTicks
    /\ isRunning
    /\ shouldUpdate(gameState)
    /\ \E i \in 1..Len(gameState.projectiles) :
           /\ gameState.projectiles[i].distanceTraveled = SHOT_RANGE
           /\ ticks - born[gameState.projectiles[i].id]
                  = SHOT_RANGE \div gameState.projectiles[i].speed

(***************************************************************************)
(* C10: an update tick lowers a tank's cooldown by exactly one while it is *)
(* above zero and leaves it at zero otherwise; no other step changes it;   *)
(* it is never negative and never above maxCooldown.                       *)
(***************************************************************************)
CoolDown(cooldown) == IF cooldown > 0 THEN cooldown - 1 ELSE 0

CooldownInRange(tank) == tank.cooldown >= 0 /\ tank.cooldown <= tank.maxCooldown

C10_Cooldown ==
    [][/\ CooldownInRange(gameState'.player)
       /\ \A i \in 1..Len(gameState'.enemies) : CooldownInRange(gameState'.enemies[i])
       /\ IsUpdateTick =>
             /\ gameState'.player.cooldown = CoolDown(gameState.player.cooldown)
             /\ Len(gameState'.enemies) = Len(gameState.enemies) =>
                    \A i \in 1..Len(gameState.enemies) :
                        gameState'.enemies[i].cooldown
                            = CoolDown(gameState.enemies[i].cooldown)
       /\ ~IsUpdateTick =>
             /\ gameState'.player.cooldown = gameState.player.cooldown
             /\ Len(gameState'.enemies) = Len(gameState.enemies)
             /\ \A i \in 1..Len(gameState.enemies) :
                    gameState'.enemies[i].cooldown = gameState.enemies[i].cooldown]_vars

\* both tanks have counted down to zero and a further tick has left them
\* there
C10_Witness ==
    /\ ticks = 3
    /\ Len(calls) = 5
    /\ gameState.player.cooldown = 0
    /\ Len(gameState.enemies) = 1
    /\ gameState.enemies[1].cooldown = 0

\* a tank's stored health is within what the tank can have
HealthInRange(tank) == 0 <= tank.health /\ tank.health <= tank.maxHealth

(***************************************************************************)
(* C11: in every state a tick produces, the health of every tank lies      *)
(* between 0 and its maxHealth: damage never leaves a stored health below  *)
(* 0 and nothing raises a health above maxHealth.                          *)
(* The collision pass subtracts damage from the player's health without    *)
(* clamping it, and nothing in the tick clamps it afterwards.              *)
(***************************************************************************)
C11_HealthInRange ==
    Count(calls, "cleanup") = 1 =>
        /\ HealthInRange(gameState.player)
        /\ \A i \in 1..Len(gameState.enemies) : HealthInRange(gameState.enemies[i])

(***************************************************************************)
(* The utilities called directly, as the unit tests call them: a call's    *)
(* arguments are drawn from small sets, one step makes the call and a      *)
(* further step may pass a returned position back in.                      *)
(***************************************************************************)
MaxList == 3

\* a returned position, in the shape of PhysicsSystem_calculateWrappedPosition's result
Returned(position) ==
    [threw |-> FALSE, x |-> Number(position.x), y |-> Number(position.y)]

\* the bounds a caller may pass: the playfield, an object that lacks a
\* field, null, and nothing
Spaces ==
    {[width |-> DEFAULT_WIDTH, height |-> DEFAULT_HEIGHT],
     [width |-> DEFAULT_WIDTH], [height |-> DEFAULT_HEIGHT], Null, Undefined}

ValidSpace(space) == IsNumber(space, "width") /\ IsNumber(space, "height")

\* coordinates on both sides of every edge the two wrapping functions test
Coordinates(L, dimension) ==
    {-L - 10, -L - 1, -L, L, L + 1, dimension \div 2,
     dimension - L - 1, dimension + L, dimension + L + 1, dimension + L + 10}

WrapCalls ==
    {[kind |-> "wrap", x |-> x, y |-> y, L |-> L, space |-> space] :
        x \in Coordinates(WRAPPING_THRESHOLDS_enemy, DEFAULT_WIDTH)
                  \cup Coordinates(TEST_THRESHOLD, DEFAULT_WIDTH),
        y \in {DEFAULT_HEIGHT \div 2, -TEST_THRESHOLD - 10,
               DEFAULT_HEIGHT + TEST_THRESHOLD + 10,
               -WRAPPING_THRESHOLDS_enemy, DEFAULT_HEIGHT + WRAPPING_THRESHOLDS_enemy},
        L \in {WRAPPING_THRESHOLDS_enemy, TEST_THRESHOLD},
        space \in Spaces}

\* nothing is worn
Unworn == CHOOSE wear \in Wear : wear.player = PLAYER_MAX_HEALTH

\* the health an enemy handed to cleanup may have
Healths == {-HP, 0, ENEMY_BASE_HEALTH * HP}

\* the state the engine starts on, with the three lists cleanup filters
\* replaced: projectile i is active iff shot[i], and so on
Littered(shot, health, pick) ==
    [InitialState(Unworn) EXCEPT
        !.projectiles =
            [i \in 1..MaxList |->
                [createProjectile(Pos(100 * i, 300), 0, "player",
                                  DEFAULT_DAMAGE, DEFAULT_SPEED)
                     @@ [id |-> i] EXCEPT !.isActive = shot[i]]],
        !.enemies =
            [i \in 1..(MaxList - 1) |->
                [Tank(Pos(100 * i, 400), 2, 0, ENEMY_BASE_HEALTH, 2, 1, 120, FALSE)
                     EXCEPT !.health = health[i]]],
        !.powerUps =
            [i \in 1..MaxList |->
                [createPowerUp(Pos(100 * i, 500), "speed") EXCEPT !.isActive = pick[i]]],
        !.score = ENEMY_POINT_VALUE,
        !.powerUpEffects.shield = TRUE]

CleanupCalls ==
    {[kind |-> "cleanup", gs |-> Littered(shot, health, pick)] :
        shot \in [1..MaxList -> BOOLEAN],
        health \in [1..(MaxList - 1) -> Healths],
        pick \in [1..MaxList -> BOOLEAN]}

\* updateEntities on a state with projectiles in flight, paused or not
UpdateCalls ==
    {[kind |-> "update",
      gs |-> [Littered(shot, [i \in 1..(MaxList - 1) |-> ENEMY_BASE_HEALTH * HP],
                       [i \in 1..MaxList |-> TRUE])
                  EXCEPT !.isPaused = paused],
      rnd |-> rnd] :
        shot \in [1..MaxList -> BOOLEAN], paused \in BOOLEAN, rnd \in Rnd}

\* the ticks a fired projectile is followed for
MaxFlight == 10

\* a map without obstacles, enemies and power-ups
FlightField ==
    [InitialState(Unworn) EXCEPT !.obstacles = <<>>, !.enemies = <<>>,
                                 !.powerUps = <<>>]

\* createProjectile from a firing position, in the field and near its
\* right edge, then the engine's update tick after tick
FireCalls ==
    {[kind |-> "fire", position |-> position, rotation |-> rotation,
      speed |-> speed] :
        position \in {Pos(100, 100), Pos(DEFAULT_WIDTH - 100, 100)},
        rotation \in 0..3,
        speed \in {DEFAULT_SPEED, FAST_SPEED}}

\* two objects for isColliding: the test's tanks, a projectile, and
\* centers at, just inside and beyond the sum of the radii
CollisionCalls ==
    {[kind |-> "isColliding",
      obj1 |-> [position |-> Pos(100, 100), width |-> w1, height |-> w1, rotation |-> 0],
      obj2 |-> [position |-> position, width |-> w2, height |-> w2, rotation |-> 0]] :
        w1 \in {PROJECTILE_SIZE, SIZES_enemy},
        w2 \in {PROJECTILE_SIZE, SIZES_enemy},
        position \in {Pos(100, 100), Pos(120, 120), Pos(200, 200), Pos(140, 100),
                      Pos(139, 100), Pos(100, 78), Pos(100, 77), Pos(76, 68),
                      Pos(103, 96), Pos(104, 97)}}

\* a tank's candidate position around two obstacles that overlap each
\* other, a square one and a wide one, in either list order, or around none
ObstacleCalls ==
    {[kind |-> "checkObstacleCollision", position |-> Pos(x, y),
      size |-> SIZES_enemy, obstacles |-> obstacles] :
        x \in {158, 159, 160, 171, 199, 200, 201, 215, 229, 240, 260, 281, 282},
        y \in {158, 159, 160, 180, 200, 201, 226, 240, 241, 242},
        obstacles \in
            {<<createObstacle(Pos(200, 200), 40, 40, FALSE, 0),
               createObstacle(Pos(230, 210), 60, 20, TRUE, OBSTACLE_HEALTH)>>,
             <<createObstacle(Pos(230, 210), 60, 20, TRUE, OBSTACLE_HEALTH),
               createObstacle(Pos(200, 200), 40, 40, FALSE, 0)>>,
             <<>>}}

\* the obstacles a tank at (200, 200) just clears: ahead and behind, and
\* above and below
Wedge(places) ==
    [i \in 1..Len(places) |-> createObstacle(places[i], 40, 40, FALSE, 0)]

\* updateEnemy for an enemy in the open, between two obstacles and
\* between four, the player ahead of it, to its side or behind it
EnemyCalls ==
    {[kind |-> "updateEnemy",
      enemy |-> Tank(Pos(200, 200), rotation, ENEMY_BASE_HEALTH,
                     ENEMY_BASE_HEALTH, 2, 1, 120, FALSE),
      playerPosition |-> playerPosition,
      obstacles |-> obstacles,
      rnd |-> rnd] :
        rotation \in 0..3,
        playerPosition \in {Pos(500, 200), Pos(200, 500), Pos(50, 200)},
        obstacles \in {<<>>,
                       Wedge(<<Pos(241, 200), Pos(159, 200)>>),
                       Wedge(<<Pos(241, 200), Pos(159, 200),
                               Pos(200, 241), Pos(200, 159)>>)},
        rnd \in Rnd}

\* findSafeSpawnPosition for a tank on the default playfield, with no
\* obstacle, one, or one more on the center; the random numbers give the
\* same sample on the obstacle up to attempt k, then one sample, then
\* another for the rest, and k beyond the last attempt gives none but the
\* first
SpawnCalls ==
    {[kind |-> "findSafeSpawnPosition",
      width |-> DEFAULT_WIDTH, height |-> DEFAULT_HEIGHT,
      objectSize |-> SIZES_enemy, obstacles |-> obstacles, margin |-> margin,
      draws |-> [i \in 1..MAX_SPAWN_ATTEMPTS |->
                    IF i < k THEN [x |-> 1, y |-> 1]
                    ELSE IF i = k THEN next ELSE rest]] :
        obstacles \in {<<>>,
                       Wedge(<<Pos(250, 200)>>),
                       Wedge(<<Pos(250, 200),
                               Pos(DEFAULT_WIDTH \div 2, DEFAULT_HEIGHT \div 2)>>)},
        margin \in {100, 50},
        k \in 1..(MAX_SPAWN_ATTEMPTS + 1),
        next \in {[x |-> 0, y |-> 0], [x |-> 2, y |-> 2]},
        rest \in {[x |-> 1, y |-> 1], [x |-> 3, y |-> 0]}}

\* the interior obstacles asked of generateObstacles
MaxCount == 2

\* lib/obstacles.generateObstacles: the four border obstacles (lines 121-148)
BorderObstacles(canvasWidth, canvasHeight) ==
    <<createObstacle(Pos(canvasWidth \div 2, -10), canvasWidth, 20, FALSE, 0),
      createObstacle(Pos(canvasWidth \div 2, canvasHeight + 10), canvasWidth, 20,
                     FALSE, 0),
      createObstacle(Pos(-10, canvasHeight \div 2), 20, canvasHeight, FALSE, 0),
      createObstacle(Pos(canvasWidth + 10, canvasHeight \div 2), 20, canvasHeight,
                     FALSE, 0)>>

\* the four random numbers of one pass of the loop: size and the two
\* coordinates in quarters, and whether the second number is above 0.7
ObstacleDraws == [size : {0, 2}, destructible : BOOLEAN, x : 0..3, y : {0, 2}]

\* lines 152-156: minSize + random * (maxSize - minSize), and
\* random * (extent - size) + size / 2 on both axes
SampledObstacle(canvasWidth, canvasHeight, draw) ==
    createObstacle(
        Pos((draw.x * (canvasWidth - (40 + draw.size * 15))) \div 4
                + (40 + draw.size * 15) \div 2,
            (draw.y * (canvasHeight - (40 + draw.size * 15))) \div 4
                + (40 + draw.size * 15) \div 2),
        40 + draw.size * 15, 40 + draw.size * 15, draw.destructible,
        OBSTACLE_HEALTH)

\* lines 159-163: distToPlayerSpawn < 150, both sides squared
TooCloseToSpawn(position) ==
    (position.x - 100) * (position.x - 100) + (position.y - 100) * (position.y - 100)
        < 150 * 150

\* generateObstacles on the default playfield and on one of 200 by 200
GenerateCalls ==
    {[kind |-> "generateObstacles", canvasWidth |-> size.width,
      canvasHeight |-> size.height, count |-> count] :
        size \in {[width |-> DEFAULT_WIDTH, height |-> DEFAULT_HEIGHT],
                  [width |-> 200, height |-> 200]},
        count \in 0..MaxCount}

\* handleTankCollisions on the player and two enemies that stand on the
\* player's spot, on each other's, against the player or apart
TankCalls ==
    {[kind |-> "handleTankCollisions",
      gs |-> [InitialState(Unworn) EXCEPT
                 !.obstacles = <<>>,
                 !.powerUpEffects.shield = shield,
                 !.enemies = <<Tank(first, rotation, ENEMY_BASE_HEALTH * HP,
                                    ENEMY_BASE_HEALTH * HP, 2, 1, 120, FALSE),
                               Tank(second, 2, ENEMY_BASE_HEALTH * HP,
                                    ENEMY_BASE_HEALTH * HP, 2, 1, 120, FALSE)>>]] :
        shield \in BOOLEAN,
        rotation \in {0, 2},
        first \in {Pos(100, 100), Pos(120, 100), Pos(300, 300)},
        second \in {Pos(100, 100), Pos(300, 300), Pos(500, 100)}}

UtilInit ==
    /\ gameState = InitialState(Unworn)
    /\ isRunning = FALSE
    /\ animationFrameId = NullFrame
    /\ pendingFrames = {}
    /\ calls = <<>>
    /\ rendered = Undefined
    /\ ticks = 0
    /\ born = <<>>
    /\ gameScreen = "start"
    /\ timers = <<>>
    /\ enemySpeedIncrease = 0
    /\ \E args \in WrapCalls \cup CleanupCalls \cup UpdateCalls \cup FireCalls
                      \cup CollisionCalls \cup ObstacleCalls \cup EnemyCalls
                      \cup SpawnCalls \cup TankCalls :
           probe = [fn |-> "none", args |-> args, first |-> args,
                    out |-> Undefined, again |-> FALSE]

\* what is not a utility's call record
loopVars == <<gameState, isRunning, animationFrameId, pendingFrames, calls,
              rendered, ticks, born, gameScreen, timers, enemySpeedIncrease>>

\* the wrapping function `fn` applied to a call's arguments
Wrapped(fn, args) ==
    IF fn = "PhysicsSystem.calculateWrappedPosition"
    THEN PhysicsSystem_calculateWrappedPosition(args.x, args.y, args.L, args.space)
    ELSE Returned(calculateWrappedPosition(args.x, args.y, args.L, args.space))

\* physicsSystem.calculateWrappedPosition(x, y, threshold, dimensions)
CallPhysicsWrap ==
    /\ probe.fn = "none"
    /\ probe.args.kind = "wrap"
    /\ probe' = [probe EXCEPT
                    !.fn = "PhysicsSystem.calculateWrappedPosition",
                    !.out = Wrapped("PhysicsSystem.calculateWrappedPosition",
                                    probe.args)]
    /\ UNCHANGED loopVars

\* calculateWrappedPosition(x, y, L, space) of utils/position
CallUtilsWrap ==
    /\ probe.fn = "none"
    /\ probe.args.kind = "wrap"
    /\ probe' = [probe EXCEPT
                    !.fn = "calculateWrappedPosition",
                    !.out = Wrapped("calculateWrappedPosition", probe.args)]
    /\ UNCHANGED loopVars

\* the same function called on the position it has returned
WrapAgain ==
    /\ probe.fn \in {"PhysicsSystem.calculateWrappedPosition",
                     "calculateWrappedPosition"}
    /\ ~probe.again
    /\ ~probe.out.threw
    /\ ~probe.out.x.nan /\ ~probe.out.y.nan
    /\ probe' = [probe EXCEPT
                    !.args.x = probe.out.x.v,
                    !.args.y = probe.out.y.v,
                    !.again = TRUE,
                    !.out = Wrapped(probe.fn,
                                    [probe.args EXCEPT !.x = probe.out.x.v,
                                                       !.y = probe.out.y.v])]
    /\ UNCHANGED loopVars

\* entityManager.cleanup(gameState)
CallCleanup ==
    /\ probe.fn = "none"
    /\ probe.args.kind = "cleanup"
    /\ probe' = [probe EXCEPT !.fn = "cleanup", !.out = cleanup(probe.args.gs)]
    /\ UNCHANGED loopVars

\* entityManager.updateEntities(gameState, deltaTime)
CallUpdateEntities ==
    /\ probe.fn = "none"
    /\ probe.args.kind = "update"
    /\ probe' = [probe EXCEPT !.fn = "updateEntities",
                              !.out = updateEntities(probe.args.gs, probe.args.rnd)]
    /\ UNCHANGED loopVars

\* entityManager.createProjectile(position, rotation, 'player', damage,
\* speed), the projectile put on the map
CallCreateProjectile ==
    /\ probe.fn = "none"
    /\ probe.args.kind = "fire"
    /\ probe' = [probe EXCEPT
                    !.fn = "createProjectile",
                    !.out = [gs |-> [FlightField EXCEPT
                                        !.projectiles =
                                            <<createProjectile(
                                                  probe.args.position,
                                                  probe.args.rotation, "player",
                                                  DEFAULT_DAMAGE, probe.args.speed)>>],
                             ticks |-> 0]]
    /\ UNCHANGED loopVars

\* one more tick of GameEngine.update on the map the projectile is on
FlightTick ==
    /\ probe.fn \in {"createProjectile", "update"}
    /\ probe.out.ticks < MaxFlight
    /\ \E rnd \in Rnd :
          probe' = [probe EXCEPT
                       !.fn = "update",
                       !.out = [gs |-> update(probe.out.gs, rnd),
                                ticks |-> probe.out.ticks + 1]]
    /\ UNCHANGED loopVars

\* physicsSystem.isColliding(obj1, obj2), and with the objects exchanged
CallIsColliding ==
    /\ probe.fn = "none"
    /\ probe.args.kind = "isColliding"
    /\ probe' = [probe EXCEPT
                    !.fn = "isColliding",
                    !.out = [direct |-> isColliding(probe.args.obj1, probe.args.obj2),
                             exchanged |-> isColliding(probe.args.obj2, probe.args.obj1)]]
    /\ UNCHANGED loopVars

\* checkObstacleCollision(position, size, obstacles)
CallCheckObstacleCollision ==
    /\ probe.fn = "none"
    /\ probe.args.kind = "checkObstacleCollision"
    /\ probe' = [probe EXCEPT
                    !.fn = "checkObstacleCollision",
                    !.out = checkObstacleCollision(probe.args.position,
                                                   probe.args.size,
                                                   probe.args.obstacles)]
    /\ UNCHANGED loopVars

\* updateEnemy(enemy, playerPosition, canvasWidth, canvasHeight, obstacles)
CallUpdateEnemy ==
    /\ probe.fn = "none"
    /\ probe.args.kind = "updateEnemy"
    /\ probe' = [probe EXCEPT
                    !.fn = "updateEnemy",
                    !.out = updateEnemy(probe.args.enemy, probe.args.playerPosition,
                                        DEFAULT_WIDTH, DEFAULT_HEIGHT,
                                        probe.args.obstacles, probe.args.rnd)]
    /\ UNCHANGED loopVars

\* findSafeSpawnPosition(width, height, objectSize, obstacles, margin)
CallFindSafeSpawnPosition ==
    /\ probe.fn = "none"
    /\ probe.args.kind = "findSafeSpawnPosition"
    /\ probe' = [probe EXCEPT
                    !.fn = "findSafeSpawnPosition",
                    !.out = findSafeSpawnPosition(
                                probe.args.width, probe.args.height,
                                probe.args.objectSize, probe.args.obstacles,
                                probe.args.margin, probe.args.draws)]
    /\ UNCHANGED loopVars

\* generateObstacles(canvasWidth, canvasHeight, count) up to its loop: the
\* borders are pushed and i is 0
CallGenerateObstacles ==
    /\ probe.fn = "none"
    /\ probe.args.kind = "generateObstacles"
    /\ probe' = [probe EXCEPT
                    !.fn = "generateObstacles",
                    !.out = [obstacles |-> BorderObstacles(probe.args.canvasWidth,
                                                           probe.args.canvasHeight),
                             i |-> 0, retried |-> FALSE]]
    /\ UNCHANGED loopVars

\* a pass of the loop whose sample is too close to the spawn point: i-- and
\* continue, which leave i as it was
RetryObstacle ==
    /\ probe.fn = "generateObstacles"
    /\ probe.out.i < probe.args.count
    /\ \E draw \in ObstacleDraws :
          TooCloseToSpawn(SampledObstacle(probe.args.canvasWidth,
                                          probe.args.canvasHeight, draw).position)
    /\ probe' = [probe EXCEPT !.out.retried = TRUE]
    /\ UNCHANGED loopVars

\* a pass of the loop whose sample is pushed
PlaceObstacle ==
    /\ probe.fn = "generateObstacles"
    /\ probe.out.i < probe.args.count
    /\ \E draw \in ObstacleDraws :
          /\ ~TooCloseToSpawn(SampledObstacle(probe.args.canvasWidth,
                                              probe.args.canvasHeight, draw).position)
          /\ probe' = [probe EXCEPT
                          !.out.obstacles =
                              Append(@, SampledObstacle(probe.args.canvasWidth,
                                                        probe.args.canvasHeight,
                                                        draw)),
                          !.out.i = @ + 1]
    /\ UNCHANGED loopVars

\* physicsSystem.handleTankCollisions(gameState)
CallHandleTankCollisions ==
    /\ probe.fn = "none"
    /\ probe.args.kind = "handleTankCollisions"
    /\ probe' = [probe EXCEPT
                    !.fn = "handleTankCollisions",
                    !.out = handleTankCollisions(probe.args.gs)]
    /\ UNCHANGED loopVars

UtilNext ==
    \/ CallPhysicsWrap
    \/ CallUtilsWrap
    \/ WrapAgain
    \/ CallCleanup
    \/ CallUpdateEntities
    \/ CallCreateProjectile
    \/ FlightTick
    \/ CallIsColliding
    \/ CallCheckObstacleCollision
    \/ CallUpdateEnemy
    \/ CallFindSafeSpawnPosition
    \/ CallHandleTankCollisions

UtilSpec == UtilInit /\ [][UtilNext]_vars

(***************************************************************************)
(* GenerateSpec: a call of generateObstacles, pass by pass of its loop.    *)
(* The call runs on, and of the samples Math.random() can give the loop    *)
(* one that is far enough from the spawn point comes up sooner or later.   *)
(***************************************************************************)
GenerateInit ==
    /\ gameState = InitialState(Unworn)
    /\ isRunning = FALSE
    /\ animationFrameId = NullFrame
    /\ pendingFrames = {}
    /\ calls = <<>>
    /\ rendered = Undefined
    /\ ticks = 0
    /\ born = <<>>
    /\ gameScreen = "start"
    /\ timers = <<>>
    /\ enemySpeedIncrease = 0
    /\ \E args \in GenerateCalls :
           probe = [fn |-> "none", args |-> args, first |-> args,
                    out |-> Undefined, again |-> FALSE]

GenerateNext ==
    \/ CallGenerateObstacles
    \/ RetryObstacle
    \/ PlaceObstacle

GenerateSpec ==
    GenerateInit /\ [][GenerateNext]_vars
        /\ WF_vars(GenerateNext) /\ SF_vars(PlaceObstacle)

\* what the wrapping rule gives for one coordinate
WrapRule(v, threshold, dimension) ==
    IF v < -threshold THEN dimension + threshold
    ELSE IF v > dimension + threshold THEN -threshold
    ELSE v

\* the latest step called PhysicsSystem.calculateWrappedPosition with
\* bounds that have a width and a height
PhysicsWrapCalled ==
    /\ probe # Undefined
    /\ probe.fn = "PhysicsSystem.calculateWrappedPosition"
    /\ ValidSpace(probe.args.space)

(***************************************************************************)
(* C18: PhysicsSystem.calculateWrappedPosition maps each axis on its own:  *)
(* a coordinate below -threshold becomes dimension + threshold, one above  *)
(* dimension + threshold becomes -threshold, any other is returned as it   *)
(* is; so the result lies in [-threshold, dimension + threshold], and      *)
(* wrapping a wrapped position returns that position.                      *)
(***************************************************************************)
C18_Wrap ==
    PhysicsWrapCalled =>
        /\ probe.out =
               Returned(Pos(WrapRule(probe.args.x, probe.args.L, probe.args.space.width),
                            WrapRule(probe.args.y, probe.args.L, probe.args.space.height)))
        /\ -probe.args.L <= probe.out.x.v
        /\ probe.out.x.v <= probe.args.space.width + probe.args.L
        /\ -probe.args.L <= probe.out.y.v
        /\ probe.out.y.v <= probe.args.space.height + probe.args.L
        /\ probe.again => probe.out = Returned(Pos(probe.args.x, probe.args.y))

\* (850, 300) with threshold 40 on 800 x 600 has given (-40, 300), and
\* (-40, 300) passed back in has come back as it is
C18_Witness ==
    /\ PhysicsWrapCalled
    /\ probe.again
    /\ probe.first.x = 850 /\ probe.first.y = 300 /\ probe.first.L = TEST_THRESHOLD
    /\ probe.args.x = -40 /\ probe.args.y = 300
    /\ probe.out = Returned(Pos(-40, 300))

(***************************************************************************)
(* C19: a wrapping function called with bounds that are missing, or that   *)
(* lack a numeric width or height, returns the position it was given and   *)
(* does not throw.                                                         *)
(* PhysicsSystem.calculateWrappedPosition reads dimensions.width without   *)
(* any test, and utils/position.calculateWrappedPosition replaces bounds   *)
(* that are undefined by its 800 x 600 default before its test.            *)
(***************************************************************************)
C19_InvalidBounds ==
    (/\ probe # Undefined
     /\ probe.args.kind = "wrap"
     /\ probe.fn # "none"
     /\ ~probe.again
     /\ ~ValidSpace(probe.args.space))
        => probe.out = Returned(Pos(probe.args.x, probe.args.y))

(***************************************************************************)
(* C20: cleanup returns a state whose projectiles are the input's active   *)
(* projectiles, whose enemies are the input's enemies with health > 0 and  *)
(* whose power-ups are the input's active power-ups, each list in the      *)
(* order it had, with the player, the score, the flags and the             *)
(* powerUpEffects of the input.                                            *)
(***************************************************************************)
C20_Cleanup ==
    (probe # Undefined /\ probe.fn = "cleanup") =>
        /\ probe.out.projectiles =
               SelectSeq(probe.args.gs.projectiles, LAMBDA p : p.isActive)
        /\ probe.out.enemies =
               SelectSeq(probe.args.gs.enemies, LAMBDA e : e.health > 0)
        /\ probe.out.powerUps =
               SelectSeq(probe.args.gs.powerUps, LAMBDA p : p.isActive)
        /\ probe.out.player = probe.args.gs.player
        /\ probe.out.score = probe.args.gs.score
        /\ probe.out.isGameOver = probe.args.gs.isGameOver
        /\ probe.out.isPaused = probe.args.gs.isPaused
        /\ probe.out.powerUpEffects = probe.args.gs.powerUpEffects

\* cleanup has dropped the middle one of three projectiles, the first of
\* two enemies (health 0) and the first of three power-ups
C20_Witness ==
    /\ probe # Undefined
    /\ probe.fn = "cleanup"
    /\ Len(probe.args.gs.projectiles) = 3
    /\ Len(probe.out.projectiles) = 2
    /\ probe.out.projectiles[1].id = 1 /\ probe.out.projectiles[2].id = 3
    /\ probe.args.gs.enemies[1].health = 0
    /\ Len(probe.out.enemies) = 1
    /\ probe.out.enemies[1].position = probe.args.gs.enemies[2].position
    /\ Len(probe.out.powerUps) = 2
    /\ probe.out.powerUps[1].position = probe.args.gs.powerUps[2].position

(***************************************************************************)
(* GameContainer: the React component that runs the game in the browser.   *)
(* Its state is gameState and gameScreen; a setInterval callback computes  *)
(* each tick with a functional setGameState, and setTimeout callbacks end  *)
(* the power-up effects, show the game-over screen, restart the match and  *)
(* bring new enemies.  ticks counts the interval's ticks; born[id] is the  *)
(* value of ticks when power-up id was spawned.  A projectile carries who  *)
(* fired it in firedBy, which the source's object does not have.           *)
(***************************************************************************)
MaxPowerUps == 2

\* the powerUpEffects of initialGameState
DefaultEffects == [speed |-> SPEED_UNIT, shield |-> FALSE, rapidFire |-> FALSE]

\* powerUpEffects.speed while the speed power-up lasts: 1.5
BoostedSpeed == (3 * SPEED_UNIT) \div 2

\* lines 18-45, with the playfield size the component keeps beside it
initialGameState ==
    [player |-> Tank(Pos(100, 100), 0, PLAYER_MAX_HEALTH, PLAYER_MAX_HEALTH,
                     PLAYER_SPEED, 0, 30, TRUE),
     enemies |-> <<>>,
     projectiles |-> <<>>,
     obstacles |-> <<>>,
     powerUps |-> <<>>,
     score |-> 0,
     isGameOver |-> FALSE,
     isPaused |-> FALSE,
     powerUpEffects |-> DefaultEffects,
     dimensions |-> [width |-> DEFAULT_WIDTH, height |-> DEFAULT_HEIGHT]]

\* lib/enemies.createEnemy, the random rotation and cooldown being given;
\* the speed is the cap the progressive difficulty ends at
createEnemy(position, rotation, cooldown) ==
    Tank(position, rotation, ENEMY_BASE_HEALTH, ENEMY_BASE_HEALTH,
         ENEMY_SPEED_MAX_CAP, cooldown, 120, FALSE)

\* createEnemy, lines 104-112: the band the speed is drawn from, for the
\* speed increase handed over
SpeedBand(speedIncrease) ==
    [minSpeed |-> IF ENEMY_SPEED_MIN + speedIncrease < SPEED_CAP
                  THEN ENEMY_SPEED_MIN + speedIncrease ELSE SPEED_CAP,
     maxSpeed |-> IF ENEMY_SPEED_MAX + speedIncrease < SPEED_CAP
                  THEN ENEMY_SPEED_MAX + speedIncrease ELSE SPEED_CAP]

\* createEnemy called during a match, the enemy keeping the band its speed
\* was drawn from
Spawned(position, rotation, speedIncrease) ==
    createEnemy(position, rotation, 1) @@ [band |-> SpeedBand(speedIncrease)]

\* what handleStartGame draws at random: the obstacles, the safe spawn
\* positions, and each enemy's rotation and cooldown
Arena ==
    [obstacles |-> <<createObstacle(Pos(100, 40), 40, 40, FALSE, 0),
                     createObstacle(Pos(100, 160), 40, 40, TRUE, OBSTACLE_HEALTH)>>,
     player |-> Pos(100, 100),
     enemies |-> <<createEnemy(Pos(142, 101), 2, 1),
                   createEnemy(Pos(184, 102), 2, 1)>>]

\* the state handleStartGame sets (lines 224-234)
StartState(arena) ==
    [initialGameState EXCEPT
        !.player.position = arena.player,
        !.player.cooldown = 30,
        !.obstacles = arena.obstacles,
        !.enemies = arena.enemies,
        !.projectiles = <<>>]

\* a match some way in: the tanks have taken damage and the player's gun
\* has cooled down
MidMatch(wear) ==
    [StartState(Arena) EXCEPT
        !.player.health = wear.player * HP,
        !.player.cooldown = 0,
        !.enemies = [i \in 1..Len(@) |-> [@[i] EXCEPT !.health = wear.enemy * HP]]]

\* what only the interval's callback touches
tickVars == <<enemySpeedIncrease>>

\* the difficulty the kills of earlier matches have left: the container
\* never resets it, and a long session has brought it to its cap
Difficulty(wear) == SPEED_CAP

ContainerInit ==
    /\ \E wear \in Wear :
          /\ IF wear = Unworn
             THEN gameState = initialGameState /\ gameScreen = "start"
             ELSE gameState = MidMatch(wear) /\ gameScreen = "playing"
          /\ enemySpeedIncrease = Difficulty(wear)
    /\ timers = <<>>
    /\ ticks = 0
    /\ born = <<>>
    /\ calls = <<>>
    /\ isRunning = FALSE
    /\ animationFrameId = NullFrame
    /\ pendingFrames = {}
    /\ rendered = Undefined
    /\ probe = Undefined

\* what the container does not touch
engineVars == <<isRunning, animationFrameId, pendingFrames, rendered, probe>>

\* the sequence without its i-th element
Without(seq, i) == [j \in 1..(Len(seq) - 1) |-> IF j < i THEN seq[j] ELSE seq[j + 1]]

\* handleStartGame, from the start screen's button
StartGame ==
    /\ gameScreen = "start"
    /\ gameState' = StartState(Arena)
    /\ gameScreen' = "playing"
    /\ calls' = <<"handleStartGame">>
    /\ UNCHANGED <<timers, ticks, born, engineVars, tickVars>>

\* handleRestartGame, from the game-over screen: the projectiles are
\* cleared now and handleStartGame runs 100 ms later
RestartGame ==
    /\ gameScreen = "gameOver"
    /\ \A i \in 1..Len(timers) : timers[i].kind # "restart"
    /\ gameState' = [gameState EXCEPT !.projectiles = <<>>]
    /\ timers' = Append(timers, [kind |-> "restart", delay |-> RESTART_DELAY])
    /\ calls' = <<"handleRestartGame">>
    /\ UNCHANGED <<gameScreen, ticks, born, engineVars, tickVars>>

\* the restart's timeout were handleStartGame to carry the effects over
RestartTimer_keepEffects ==
    \E i \in 1..Len(timers) :
        /\ timers[i].kind = "restart"
        /\ gameState' = [StartState(Arena) EXCEPT
                             !.powerUpEffects = gameState.powerUpEffects]
        /\ gameScreen' = "playing"
        /\ timers' = Without(timers, i)
        /\ calls' = <<"timeout", "handleStartGame">>
        /\ UNCHANGED <<ticks, born, engineVars, tickVars>>

\* the restart's timeout runs handleStartGame
RestartTimer ==
    \E i \in 1..Len(timers) :
        /\ timers[i].kind = "restart"
        /\ gameState' = StartState(Arena)
        /\ gameScreen' = "playing"
        /\ timers' = Without(timers, i)
        /\ calls' = <<"timeout", "handleStartGame">>
        /\ UNCHANGED <<ticks, born, engineVars, tickVars>>

\* handleMainMenu, from the menu the Escape key opens while playing
MainMenu ==
    /\ gameScreen = "playing"
    /\ gameState' = initialGameState
    /\ gameScreen' = "start"
    /\ calls' = <<"handleMainMenu">>
    /\ UNCHANGED <<timers, ticks, born, engineVars, tickVars>>

\* the expiry callback were it to put back all the effects of the start
deactivatePowerUp_resetAll(state, effect) ==
    [state EXCEPT !.powerUpEffects = DefaultEffects]

\* the expiry callback were it to do nothing while the game is paused
deactivatePowerUp_unlessPaused(state, effect) ==
    IF state.isPaused
    THEN state
    ELSE [state EXCEPT
             !.powerUpEffects =
                 CASE effect = "speed" -> [@ EXCEPT !.speed = SPEED_UNIT]
                   [] effect = "shield" -> [@ EXCEPT !.shield = FALSE]
                   [] effect = "rapidFire" -> [@ EXCEPT !.rapidFire = FALSE]]

\* the state an expiry callback returns (lines 928-934, 942-948, 956-962;
\* useGameState.deactivatePowerUp): the state it is called on, but for the
\* one field of powerUpEffects
deactivatePowerUp(state, effect) ==
    [state EXCEPT
        !.powerUpEffects =
            CASE effect = "speed" -> [@ EXCEPT !.speed = SPEED_UNIT]
              [] effect = "shield" -> [@ EXCEPT !.shield = FALSE]
              [] effect = "rapidFire" -> [@ EXCEPT !.rapidFire = FALSE]]

\* a power-up's timeout runs: setGameState with the expiry callback
ExpiryTimer ==
    \E i \in 1..Len(timers) :
        /\ timers[i].kind = "expire"
        /\ gameState' = deactivatePowerUp(gameState, timers[i].effect)
        /\ timers' = Without(timers, i)
        /\ calls' = <<"timeout", timers[i].effect>>
        /\ UNCHANGED <<gameScreen, ticks, born, engineVars, tickVars>>

\* the timeout of the dead-player check runs handleGameOver
GameOverTimer ==
    \E i \in 1..Len(timers) :
        /\ timers[i].kind = "gameOver"
        /\ gameScreen' = "gameOver"
        /\ timers' = Without(timers, i)
        /\ calls' = <<"timeout", "handleGameOver">>
        /\ UNCHANGED <<gameState, ticks, born, engineVars, tickVars>>

\* the timeout set when no enemy was left runs (lines 998-1010); the speed
\* increase is the one its closure holds
RespawnTimer ==
    \E i \in 1..Len(timers) :
        /\ timers[i].kind = "respawn"
        /\ gameState' =
               IF Len(gameState.enemies) = 0
               THEN [gameState EXCEPT
                        !.enemies =
                            <<Spawned(Pos(50, 50), 0, timers[i].enemySpeedIncrease),
                              Spawned(Pos(gameState.dimensions.width - 50, 50), 2,
                                      timers[i].enemySpeedIncrease)>>]
               ELSE gameState
        /\ timers' = Without(timers, i)
        /\ calls' = <<"timeout", "respawn">>
        /\ UNCHANGED <<gameScreen, ticks, born, engineVars, tickVars>>

\* useGameState.togglePause
TogglePause ==
    /\ gameScreen = "playing"
    /\ gameState' = [gameState EXCEPT !.isPaused = ~@]
    /\ calls' = <<"togglePause">>
    /\ UNCHANGED <<gameScreen, timers, ticks, born, engineVars, tickVars>>

\* where generateRandomPowerUp may put a power-up: beside the player's
\* spawn position and far from it
PowerUpPlaces == {Pos(110, 105)}

PowerUpTypes == {"health", "speed", "rapidFire", "shield"}

\* spawnPowerUp (lines 367-385), the power-up getting the next id
SpawnPowerUp ==
    /\ gameScreen = "playing"
    /\ Len(born) < MaxPowerUps
    /\ \E type \in PowerUpTypes, place \in PowerUpPlaces :
          gameState' =
              IF Len(SelectSeq(gameState.powerUps, LAMBDA p : p.isActive))
                     >= MAX_ACTIVE_POWERUPS
              THEN gameState
              ELSE [gameState EXCEPT
                       !.powerUps = Append(@, createPowerUp(place, type)
                                              @@ [id |-> Len(born) + 1])]
    /\ born' = Append(born, ticks)
    /\ calls' = <<"spawnPowerUp">>
    /\ UNCHANGED <<gameScreen, timers, ticks, engineVars, tickVars>>

(***************************************************************************)
(* The interval's callback (lines 444-1022).  It works on newState, a copy *)
(* of the state, and on the locals player, updatedEnemies and so on; here  *)
(* one record holds them all, every step giving the record the next step   *)
(* works on.  seen is newState.player.position, collided and picked are    *)
(* collidedProjectiles and collidedPowerUps, scheduled the timeouts set.   *)
(***************************************************************************)
\* the keys held during a tick: the space bar, or none; no movement key
Keys == [fire : BOOLEAN]

\* Date.now() and Math.random() as updateEnemy and the firing test see them
ContainerRnd == [change : BOOLEAN, bucket : {0}, center : {FALSE}, fire : BOOLEAN]

Begin(prevState) ==
    prevState @@ [seen |-> prevState.player.position, scheduled |-> <<>>,
                  collided |-> {}, picked |-> {}, kills |-> 0]

\* lines 520-530 with dx = dy = 0: where the obstacle test leaves the player
PlacedPlayer(position, obstacleCollision) ==
    IF obstacleCollision.collided /\ obstacleCollision.correctedPosition.some
    THEN obstacleCollision.correctedPosition.v
    ELSE position

\* lines 565-572: the wrapped position is written into player.position,
\* the object newState.player has too unless the corrected position
\* replaced it
WrapPlayer(w, obstacleCollision, wrapped) ==
    [w EXCEPT !.player.position = wrapped,
              !.seen = IF /\ obstacleCollision.collided
                          /\ obstacleCollision.correctedPosition.some
                       THEN w.player.position
                       ELSE wrapped]

PlacePlayer(w, obstacleCollision, placed) ==
    WrapPlayer(w, obstacleCollision,
               calculateWrappedPosition(placed.x, placed.y,
                                        WRAPPING_THRESHOLDS_player, w.dimensions))

TestPlayer(w, obstacleCollision) ==
    PlacePlayer(w, obstacleCollision,
                PlacedPlayer(w.player.position, obstacleCollision))

\* lines 447-572
MovePlayer(w) ==
    TestPlayer(w, checkObstacleCollision(w.player.position, w.player.width,
                                         w.obstacles))

\* the projectile literal of lines 590-603 and 642-655
Shell(tank, speed, damage, firedBy) ==
    [position |-> Pos(tank.position.x + Cos(tank.rotation) * MUZZLE_DISTANCE,
                      tank.position.y + Sin(tank.rotation) * MUZZLE_DISTANCE),
     rotation |-> tank.rotation,
     width |-> PROJECTILE_SIZE,
     height |-> PROJECTILE_SIZE,
     speed |-> speed,
     damage |-> damage,
     isActive |-> TRUE,
     distanceTraveled |-> 0,
     firedBy |-> firedBy]

\* lines 584-586
effectiveCooldown(w) ==
    IF w.powerUpEffects.rapidFire
    THEN w.player.maxCooldown \div 3
    ELSE w.player.maxCooldown

\* faulty variant: the gun fires whenever the key is held
ShootPlayer_hot(w, keys) ==
    IF keys.fire
    THEN [w EXCEPT !.projectiles = Append(@, Shell(w.player, 10, 20, "player")),
                   !.player.cooldown = effectiveCooldown(w)]
    ELSE w

\* lines 588-609
ShootPlayer(w, keys) ==
    IF keys.fire /\ w.player.cooldown <= 0
    THEN [w EXCEPT !.projectiles = Append(@, Shell(w.player, 10, 20, "player")),
                   !.player.cooldown = effectiveCooldown(w)]
    ELSE w

\* lines 611-614
CoolPlayer(w) ==
    [w EXCEPT !.player.cooldown = IF @ > 0 THEN @ - 1 ELSE @]

\* Math.round of half a step along a direction whose cosine or sine is c
HalfStep(c) == IF c > 0 THEN 1 ELSE 0

\* lines 626-634: the failsafe's half pixel, to the nearest pixel
Nudged(enemy) ==
    [enemy EXCEPT !.position = Pos(@.x + HalfStep(Cos(enemy.rotation)),
                                   @.y + HalfStep(Sin(enemy.rotation)))]

\* lines 636-664
EnemyFires(index, w, rnd) ==
    IF /\ w.enemies[index].cooldown <= 0
       /\ Dist2(w.seen, w.enemies[index].position) < SHOT_RANGE * SHOT_RANGE
       /\ rnd.fire
    THEN [w EXCEPT !.projectiles = Append(@, Shell(w.enemies[index], 7, 10, "enemy")),
                   !.enemies[index].cooldown = w.enemies[index].maxCooldown]
    ELSE w

RECURSIVE UpdatedEnemies(_, _, _)
\* lines 617-668, from enemy `index` on
UpdatedEnemies(index, w, rnd) ==
    IF index > Len(w.enemies)
    THEN w
    ELSE UpdatedEnemies(
             index + 1,
             EnemyFires(index,
                        [w EXCEPT
                            !.enemies[index] =
                                Nudged(updateEnemy(@, w.seen, w.dimensions.width,
                                                   w.dimensions.height,
                                                   w.obstacles, rnd))],
                        rnd),
             rnd)

\* lines 703-716: the moved projectile against the obstacles
Land(index, w, moved, hit) ==
    IF hit # 0
    THEN [w EXCEPT !.obstacles[hit] = DamageObstacle(@, moved),
                   !.projectiles[index].isActive = FALSE]
    ELSE [w EXCEPT !.projectiles[index] = moved]

Fly(index, w, moved) == Land(index, w, moved, FirstObstacleHit(moved, w.obstacles))

\* lines 673-722 for one projectile
MoveProjectile(index, w) ==
    IF ~w.projectiles[index].isActive THEN w
    ELSE IF w.projectiles[index].distanceTraveled + w.projectiles[index].speed
                > SHOT_RANGE
    THEN [w EXCEPT !.projectiles[index].isActive = FALSE]
    ELSE Fly(index, w,
             [w.projectiles[index] EXCEPT
                 !.position =
                     calculateWrappedPosition(
                         @.x + Cos(w.projectiles[index].rotation)
                                   * w.projectiles[index].speed,
                         @.y + Sin(w.projectiles[index].rotation)
                                   * w.projectiles[index].speed,
                         WRAPPING_THRESHOLDS_projectile, w.dimensions),
                 !.distanceTraveled = @ + w.projectiles[index].speed])

RECURSIVE MovedProjectiles(_, _)
\* lines 671-730: the map, from projectile `index` on, then the two filters
MovedProjectiles(index, w) ==
    IF index > Len(w.projectiles)
    THEN [w EXCEPT !.projectiles = SelectSeq(@, LAMBDA p : p.isActive),
                   !.obstacles = SelectSeq(@, ObstacleStays)]
    ELSE MovedProjectiles(index + 1, MoveProjectile(index, w))

\* newState.player as the hit test reads it
SeenPlayer(w) == [position |-> w.seen, width |-> w.player.width]

\* the projectile against the player were the shield not looked at
ShotAtPlayer_unshielded(index, w) ==
    IF HitsTank(w.projectiles[index], SeenPlayer(w))
    THEN [w EXCEPT
             !.player.health = @ - w.projectiles[index].damage * HP,
             !.collided = @ \cup {index}]
    ELSE w

\* lines 766-782: the projectile against the player
ShotAtPlayer(index, w) ==
    IF HitsTank(w.projectiles[index], SeenPlayer(w))
    THEN [w EXCEPT
             !.player.health = IF w.powerUpEffects.shield
                               THEN @
                               ELSE @ - w.projectiles[index].damage * HP,
             !.collided = @ \cup {index}]
    ELSE w

\* lines 742-763: the enemy is hit; the callback returns at once when the
\* hit has killed it
HitEnemy(e, index, w) ==
    IF w.enemies[e].health <= 0
    THEN [w EXCEPT !.score = @ + ENEMY_POINT_VALUE * ENEMY_POINT_MULTIPLER,
                   !.kills = @ + 1]
    ELSE ShotAtPlayer(index, w)

\* lines 737-783: one projectile in the forEach run for enemy e
ShotAt(e, index, w) ==
    IF HitsTank(w.projectiles[index], w.enemies[e])
    THEN HitEnemy(e, index,
                  [w EXCEPT
                      !.enemies[e].health = @ - w.projectiles[index].damage * HP,
                      !.collided = @ \cup {index}])
    ELSE ShotAtPlayer(index, w)

RECURSIVE ShotsAtEnemy(_, _, _)
\* the forEach run for enemy e, from projectile `index` on
ShotsAtEnemy(e, index, w) ==
    IF index > Len(w.projectiles)
    THEN w
    ELSE ShotsAtEnemy(e, index + 1, ShotAt(e, index, w))

RECURSIVE ShotTanks(_, _)
\* lines 732-793: the map over the enemies, from enemy e on, then the
\* filters of the enemies and of the projectiles
ShotTanks(e, w) ==
    IF e > Len(w.enemies)
    THEN [w EXCEPT
             !.enemies = SelectSeq(@, LAMBDA enemy : enemy.health > 0),
             !.projectiles =
                 SelectSeq([i \in 1..Len(@) |-> [@[i] EXCEPT !.isActive = i \notin w.collided]],
                           LAMBDA p : p.isActive)]
    ELSE ShotTanks(e + 1, ShotsAtEnemy(e, 1, w))

\* points for a kill by ramming: ENEMY_POINT_VALUE * ENEMY_POINT_MULTIPLER * 0.8
RamPoints == (ENEMY_POINT_VALUE * ENEMY_POINT_MULTIPLER * 8) \div 10

\* lines 795-906, the player and the enemies being what the two loops
\* leave; every enemy the player has rammed to zero or less scores
Rammed(w, rammed) ==
    [w EXCEPT
        !.player = rammed.player,
        !.enemies = EnemyVsEnemy(1, 2, rammed.enemies),
        !.score = @ + RamPoints
                        * Cardinality({i \in 1..Len(rammed.enemies) :
                                          rammed.enemies[i].health <= 0}),
        !.kills = @ + Cardinality({i \in 1..Len(rammed.enemies) :
                                      rammed.enemies[i].health <= 0})]

RammedTanks(w) ==
    Rammed(w, PlayerVsEnemies(1, w.player, w.enemies, w.powerUpEffects))

\* lines 918-965: the effect of the power-up picked up and the timeout set
Applied(w, powerUp) ==
    CASE powerUp.type = "health" ->
             [w EXCEPT !.player.health =
                           IF @ + HEALTH_BONUS * HP < w.player.maxHealth
                           THEN @ + HEALTH_BONUS * HP
                           ELSE w.player.maxHealth]
      [] powerUp.type = "speed" ->
             [w EXCEPT !.powerUpEffects.speed = BoostedSpeed,
                       !.scheduled = Append(@, [kind |-> "expire", effect |-> "speed",
                                                delay |-> powerUp.duration])]
      [] powerUp.type = "rapidFire" ->
             [w EXCEPT !.powerUpEffects.rapidFire = TRUE,
                       !.scheduled = Append(@, [kind |-> "expire", effect |-> "rapidFire",
                                                delay |-> powerUp.duration])]
      [] powerUp.type = "shield" ->
             [w EXCEPT !.powerUpEffects.shield = TRUE,
                       !.scheduled = Append(@, [kind |-> "expire", effect |-> "shield",
                                                delay |-> powerUp.duration])]

\* one power-up were its isActive not looked at
PickUp_anyState(index, w) ==
    IF isColliding(w.powerUps[index], w.player)
    THEN [Applied(w, w.powerUps[index]) EXCEPT !.picked = @ \cup {index}]
    ELSE w

\* lines 912-968 for one power-up
PickUp(index, w) ==
    IF w.powerUps[index].isActive /\ isColliding(w.powerUps[index], w.player)
    THEN [Applied(w, w.powerUps[index]) EXCEPT !.picked = @ \cup {index}]
    ELSE w

RECURSIVE PickedUp(_, _)
\* lines 908-979: the forEach, from power-up `index` on, then the map and
\* the filter, which keep the active power-ups that were not picked up
PickedUp(index, w) ==
    IF index > Len(w.powerUps)
    THEN [w EXCEPT
             !.powerUps =
                 SelectSeq([i \in 1..Len(@) |->
                               [@[i] EXCEPT !.isActive = @ /\ i \notin w.picked]],
                           LAMBDA p : p.isActive)]
    ELSE PickedUp(index + 1, PickUp(index, w))

\* lines 981-987
DeadCheck(w) ==
    IF w.player.health <= 0
    THEN [w EXCEPT !.player.health = 0,
                   !.scheduled = Append(@, [kind |-> "gameOver",
                                            delay |-> GAME_OVER_DELAY])]
    ELSE w

\* lines 992-1011
EnemyCheck(w) ==
    IF Len(w.enemies) = 0
    THEN [w EXCEPT !.scheduled = Append(@, [kind |-> "respawn",
                                            delay |-> RESPAWN_DELAY])]
    ELSE w

\* the callback's whole body on the record
loopBody(prevState, keys, rnd) ==
    EnemyCheck(DeadCheck(PickedUp(1, RammedTanks(ShotTanks(1,
        MovedProjectiles(1, UpdatedEnemies(1,
            CoolPlayer(ShootPlayer(MovePlayer(Begin(prevState)), keys)),
            rnd)))))))

\* lines 1013-1022: the state returned
NewState(w) == [field \in DOMAIN initialGameState |-> w[field]]

\* the random variation of one tick's speed increases: (Math.random() * 2
\* - 1) * ENEMY_SPEED_RANDOMNESS at its least, at its middle and at its
\* greatest
Variations == {-ENEMY_SPEED_RANDOMNESS, 0, ENEMY_SPEED_RANDOMNESS - 1}

RECURSIVE Raised(_, _, _)
\* lines 762 and 855, once for each kill of the tick:
\* setEnemySpeedIncrease(prev => Math.min(prev + speedIncrease, CAP))
Raised(prev, speedIncrease, kills) ==
    IF kills = 0
    THEN prev
    ELSE Raised(IF prev + speedIncrease < SPEED_CAP
                THEN prev + speedIncrease
                ELSE SPEED_CAP,
                speedIncrease, kills - 1)

\* the timeouts a tick sets: an expiry is due `delay` after the tick it is
\* set in, and the respawn's callback closes over the enemySpeedIncrease
\* of the render the interval was set up in: at its freshest, the value
\* before the tick
Closed(scheduled, speedIncrease) ==
    [i \in 1..Len(scheduled) |->
        CASE scheduled[i].kind = "respawn" ->
                 scheduled[i] @@ [enemySpeedIncrease |-> speedIncrease]
          [] scheduled[i].kind = "expire" -> scheduled[i] @@ [tick |-> ticks]
          [] OTHER -> scheduled[i]]

\* lines 1013-1022 and the calls made on the way: the state returned, the
\* timeouts set and a speed increase for every kill (no kill draws no
\* variation)
Returns(w) ==
    /\ gameState' = NewState(w)
    /\ timers' = timers \o Closed(w.scheduled, enemySpeedIncrease)
    /\ \E randomVariation \in IF w.kills = 0 THEN {0} ELSE Variations :
          enemySpeedIncrease' =
              Raised(enemySpeedIncrease,
                     ENEMY_SPEED_INCREASE_PER_KILL + randomVariation, w.kills)

\* one run of the interval's callback, while the screen is 'playing'
IntervalTick ==
    /\ gameScreen = "playing"
    /\ ticks < MaxTicks
    /\ \E keys \in Keys, rnd \in ContainerRnd :
          Returns(loopBody(gameState, keys, rnd))
    /\ ticks' = ticks + 1
    /\ calls' = <<"setInterval">>
    /\ UNCHANGED <<gameScreen, born, engineVars>>

(***************************************************************************)
(* The enemy spawn effect (lines 271-358).  It runs when gameScreen or the *)
(* dimensions change, and its timeout reschedules itself; spawnEnemy and   *)
(* the timeout's callback are closures of that run, so the timer carries   *)
(* the enemySpeedIncrease the effect saw.                                  *)
(***************************************************************************)
\* where the random side and offset may put a new enemy: on the top side
SpawnPlaces == {Pos(600, SIZES_enemy)}

\* the random numbers findSafeSpawnPosition would draw
SpawnDraws == [i \in 1..MAX_SPAWN_ATTEMPTS |-> [x |-> 1, y |-> 1]]

\* faulty variant: the updater were it to add an enemy whatever the count
spawnEnemy_unguarded(prevState, speedIncrease, place) ==
    [prevState EXCEPT !.enemies = Append(@, Spawned(place, 0, speedIncrease))]

\* the updater spawnEnemy hands to setGameState (lines 277-325)
spawnEnemy(prevState, speedIncrease, place) ==
    IF Len(prevState.enemies) >= MAX_ENEMIES
    THEN prevState
    ELSE [prevState EXCEPT
             !.enemies =
                 Append(@, Spawned(
                     IF checkObstacleCollision(place, SIZES_enemy,
                                               prevState.obstacles).collided
                     THEN findSafeSpawnPosition(
                              prevState.dimensions.width,
                              prevState.dimensions.height, SIZES_enemy,
                              prevState.obstacles, 50, SpawnDraws).position
                     ELSE place,
                     0, speedIncrease))]

\* the spawn timeout runs (lines 334-345): spawnEnemy, once more when
\* enemyCountRef is under MIN_ENEMIES, and the next timeout of the same
\* closure
SpawnTimer ==
    \E i \in 1..Len(timers) :
        /\ timers[i].kind = "spawn"
        /\ \E place \in SpawnPlaces :
              gameState' =
                  IF Len(gameState.enemies) < MIN_ENEMIES
                  THEN spawnEnemy(spawnEnemy(gameState, timers[i].enemySpeedIncrease,
                                             place),
                                  timers[i].enemySpeedIncrease, place)
                  ELSE spawnEnemy(gameState, timers[i].enemySpeedIncrease, place)
        /\ calls' = <<"timeout", "spawnEnemy">>
        /\ UNCHANGED <<gameScreen, timers, ticks, born, engineVars, tickVars>>

\* a match under way, the spawn effect having run when it began; either
\* both enemies stand, or the last tick has left none and set the respawn
\* timeout
SpawnInit ==
    /\ \E wear \in Wear \ {Unworn},
          speedIncrease \in {0, SPEED_CAP - ENEMY_SPEED_INCREASE_PER_KILL},
          cleared \in BOOLEAN :
          /\ gameState = IF cleared
                         THEN [MidMatch(wear) EXCEPT !.enemies = <<>>]
                         ELSE MidMatch(wear)
          /\ enemySpeedIncrease = speedIncrease
          /\ timers = <<[kind |-> "spawn", delay |-> ENEMY_SPAWN_INTERVAL_MIN,
                         enemySpeedIncrease |-> speedIncrease]>>
                      \o IF cleared
                         THEN <<[kind |-> "respawn", delay |-> RESPAWN_DELAY,
                                 enemySpeedIncrease |-> speedIncrease]>>
                         ELSE <<>>
    /\ gameScreen = "playing"
    /\ ticks = 0
    /\ born = <<>>
    /\ calls = <<>>
    /\ isRunning = FALSE
    /\ animationFrameId = NullFrame
    /\ pendingFrames = {}
    /\ rendered = Undefined
    /\ probe = Undefined

SpawnNext ==
    \/ IntervalTick
    \/ SpawnTimer
    \/ RespawnTimer

SpawnSpec == SpawnInit /\ [][SpawnNext]_vars

ContainerNext ==
    \/ StartGame
    \/ IntervalTick
    \/ SpawnPowerUp
    \/ ExpiryTimer
    \/ GameOverTimer
    \/ RespawnTimer
    \/ RestartGame
    \/ RestartTimer
    \/ MainMenu
    \/ TogglePause

ContainerSpec == ContainerInit /\ [][ContainerNext]_vars

\* the record the projectile-against-tank pass of a tick starts on
BeforeShots(prevState, keys, rnd) ==
    MovedProjectiles(1, UpdatedEnemies(1,
        CoolPlayer(ShootPlayer(MovePlayer(Begin(prevState)), keys)), rnd))

\* the record with only the projectiles `side` has fired
FiredBy(w, side) ==
    [w EXCEPT !.projectiles = SelectSeq(@, LAMBDA p : p.firedBy = side)]

(***************************************************************************)
(* C12: a projectile never reduces the health of a tank on the side that   *)
(* fired it: in the projectile-against-tank pass of any tick the           *)
(* projectiles the enemies have fired leave every enemy's health as it is  *)
(* and the projectiles the player has fired leave the player's health as   *)
(* it is.                                                                  *)
(* GameContainer's projectiles carry no owner and its pass tests every     *)
(* projectile against every enemy and against the player.                  *)
(***************************************************************************)
C12_NoFriendlyFire ==
    gameScreen = "playing" =>
        \A keys \in Keys, rnd \in ContainerRnd :
            /\ \A e \in 1..Len(BeforeShots(gameState, keys, rnd).enemies) :
                   ShotsAtEnemy(e, 1, FiredBy(BeforeShots(gameState, keys, rnd),
                                              "enemy")).enemies[e].health
                       = BeforeShots(gameState, keys, rnd).enemies[e].health
            /\ \A e \in 1..Len(BeforeShots(gameState, keys, rnd).enemies) :
                   ShotsAtEnemy(e, 1, FiredBy(BeforeShots(gameState, keys, rnd),
                                              "player")).player.health
                       = BeforeShots(gameState, keys, rnd).player.health

\* the projectiles of w that hit the player while an enemy they do not
\* overlap is on the field
HitsOnPlayer(w) ==
    {i \in 1..Len(w.projectiles) :
        /\ HitsTank(w.projectiles[i], SeenPlayer(w))
        /\ \E e \in 1..Len(w.enemies) : ~HitsTank(w.projectiles[i], w.enemies[e])}

\* the enemies of w the player collides with first in the tank pass
FirstRammed(w) ==
    {e \in 1..Len(w.enemies) :
        /\ isColliding(w.player, w.enemies[e])
        /\ \A d \in 1..(e - 1) : ~isColliding(w.player, w.enemies[d])}

\* the projectile pass stops every projectile that hits the player
ShieldStops(w) == HitsOnPlayer(w) \subseteq ShotTanks(1, w).collided

\* the tank pass takes the collision damage, the impact's 5 at least, from
\* the enemy the player collides with
ShieldRams(v) ==
    \A e \in FirstRammed(v) :
        RammedTanks(v).enemies[e].health
            <= v.enemies[e].health - INITIAL_IMPACT_DAMAGE * HP

PowerUpIds(state) == {state.powerUps[i].id : i \in 1..Len(state.powerUps)}

\* the state with every power-up used up, and with none
Spent(state) ==
    [state EXCEPT !.powerUps = [i \in 1..Len(@) |-> [@[i] EXCEPT !.isActive = FALSE]]]

Cleared(state) == [state EXCEPT !.powerUps = <<>>]

\* a tick gives the same state and sets the same timeouts whether inactive
\* power-ups lie on the field or none
InactiveSkipped ==
    gameScreen = "playing" =>
        \A keys \in Keys, rnd \in ContainerRnd :
            /\ NewState(loopBody(Spent(gameState), keys, rnd))
                   = NewState(loopBody(Cleared(gameState), keys, rnd))
            /\ loopBody(Spent(gameState), keys, rnd).scheduled
                   = loopBody(Cleared(gameState), keys, rnd).scheduled

\* the instances of type `type` a step takes off the field
Consumed(type) ==
    {i \in 1..Len(gameState.powerUps) :
        /\ gameState.powerUps[i].type = type
        /\ gameState.powerUps[i].id \notin PowerUpIds(gameState')}

\* the expiry timeouts of `effect` a step sets
Expiries(effect) ==
    {i \in (Len(timers) + 1)..Len(timers') :
        timers'[i].kind = "expire" /\ timers'[i].effect = effect}

\* a step keeps only active instances, brings back none that was taken off
\* the field, and applies at most one effect for each instance it takes off
\* (a match's start or the main menu gives the player full health)
PowerUpsOnce ==
    /\ \A i \in 1..Len(gameState'.powerUps) : gameState'.powerUps[i].isActive
    /\ Cardinality(PowerUpIds(gameState')) = Len(gameState'.powerUps)
    /\ PowerUpIds(gameState') \ PowerUpIds(gameState) \subseteq (Len(born) + 1)..Len(born')
    /\ \A type \in PowerUpTypes \ {"health"} :
          Cardinality(Expiries(type)) <= Cardinality(Consumed(type))
    /\ calls' = <<"setInterval">> =>
           gameState'.player.health
               <= gameState.player.health
                      + HEALTH_BONUS * HP * Cardinality(Consumed("health"))

(***************************************************************************)
(* C14: each power-up instance goes from active to inactive at most once   *)
(* and its effect is applied at most once.  No step brings back an         *)
(* instance that was taken off the field or keeps an inactive one, a step  *)
(* sets at most one expiry, and a tick adds at most one health bonus, for  *)
(* each instance taken off, and inactive power-ups under the player change *)
(* nothing in a tick.                                                      *)
(***************************************************************************)
C14_PowerUpOnce == [](InactiveSkipped) /\ [][PowerUpsOnce]_vars

\* the first power-up has been picked up, its expiry is pending, and the
\* second one lies under the player
C14_Witness ==
    /\ gameScreen = "playing"
    /\ Len(born) = 2
    /\ PowerUpIds(gameState) = {2}
    /\ isColliding(gameState.powerUps[1], gameState.player)
    /\ \E i \in 1..Len(timers) : timers[i].kind = "expire"

\* a tick in which the player picks up a speed power-up gives the boosted
\* multiplier and sets the expiry, the power-up's duration ahead
SpeedBoosted ==
    (calls' = <<"setInterval">> /\ Consumed("speed") # {}) =>
        /\ gameState'.powerUpEffects.speed = BoostedSpeed
        /\ BoostedSpeed > SPEED_UNIT
        /\ \A i \in Expiries("speed") : timers'[i].delay = SPEED_DURATION
        /\ Expiries("speed") # {}

\* the expiry of a speed power-up, whenever it runs, gives the multiplier 1
SpeedExpired ==
    calls' = <<"timeout", "speed">> =>
        gameState'.powerUpEffects.speed = SPEED_UNIT

(***************************************************************************)
(* C15: the tick in which the player picks up a speed power-up produces a  *)
(* state with the boosted powerUpEffects.speed and sets an expiry          *)
(* `duration` ms ahead; when a speed expiry fires, powerUpEffects.speed is *)
(* 1 in the state it leaves, whether ticks ran in between or not and       *)
(* whether the game is paused or not.                                      *)
(***************************************************************************)
C15_SpeedBoost == [][SpeedBoosted /\ SpeedExpired]_vars

\* the expiry has just fired on a paused game, no tick having run since the
\* tick of the pickup
C15_Witness ==
    /\ calls = <<"timeout", "speed">>
    /\ gameState.isPaused
    /\ ticks = 1
    /\ gameState.powerUpEffects.speed = SPEED_UNIT

\* the expiry has just fired after another tick has run
C15_WitnessLater ==
    /\ calls = <<"timeout", "speed">>
    /\ ticks > 1
    /\ gameState.powerUpEffects.speed = SPEED_UNIT

\* the step is the expiry callback of `effect`
Expires(effect) == calls' = <<"timeout", effect>>

\* the state after the step is the state before it but for the one field
\* of powerUpEffects, which has its default
OnlyReverted(effect) ==
    /\ \A field \in DOMAIN gameState \ {"powerUpEffects"} :
          gameState'[field] = gameState[field]
    /\ DOMAIN gameState' = DOMAIN gameState
    /\ \A other \in DOMAIN DefaultEffects \ {effect} :
          gameState'.powerUpEffects[other] = gameState.powerUpEffects[other]
    /\ gameState'.powerUpEffects[effect] = DefaultEffects[effect]

(***************************************************************************)
(* C16: an expiry callback works on the state current when it runs: the    *)
(* state it leaves is that state, with all that ticks and other callbacks  *)
(* have done since the pickup, but for the one expired field of            *)
(* powerUpEffects, which is back at its default.                           *)
(***************************************************************************)
C16_ExpiryOnCurrent ==
    [][\A effect \in DOMAIN DefaultEffects :
           Expires(effect) => OnlyReverted(effect)]_vars

\* the speed expiry has just fired, two ticks or more into the match, and
\* the shield picked up after the speed power-up is still up and its expiry
\* still pending
C16_Witness ==
    /\ calls = <<"timeout", "speed">>
    /\ ticks >= 2
    /\ gameState.powerUpEffects.shield
    /\ gameState.powerUpEffects.speed = SPEED_UNIT
    /\ \E i \in 1..Len(timers) : timers[i].kind = "expire" /\ timers[i].effect = "shield"

\* the step is handleStartGame, from the start screen or from the restart's
\* timeout
Starts == calls' = <<"handleStartGame">> \/ calls' = <<"timeout", "handleStartGame">>

(***************************************************************************)
(* C17: every start and every restart of a match leaves powerUpEffects at  *)
(* speed 1, shield false, rapidFire false, whatever the effects were when  *)
(* the match before ended.                                                 *)
(***************************************************************************)
C17_StartDefaults ==
    [][Starts =>
           /\ gameState'.powerUpEffects.speed = SPEED_UNIT
           /\ gameState'.powerUpEffects.shield = FALSE
           /\ gameState'.powerUpEffects.rapidFire = FALSE]_vars

\* the match has just been restarted; the one power-up of the match before
\* was picked up and its expiry has not fired, so its effect was on when
\* that match ended
C17_Witness ==
    /\ calls = <<"timeout", "handleStartGame">>
    /\ Len(born) = 1
    /\ \E i \in 1..Len(timers) : timers[i].kind = "expire"
    /\ gameState.powerUpEffects = DefaultEffects

\* the record a tick's projectiles start to move on: the player and the
\* enemies have been updated and have fired
BeforeMoves(prevState, keys, rnd) ==
    UpdatedEnemies(1, CoolPlayer(ShootPlayer(MovePlayer(Begin(prevState)), keys)), rnd)

(***************************************************************************)
(* C21: within a tick nothing is removed from a collection before the      *)
(* collisions are done: moving the projectiles leaves as many projectiles  *)
(* and obstacles as there were, and the projectile-against-tank pass       *)
(* leaves as many enemies as there were, so that what has gone inactive or *)
(* died is still there for the rest of the collision pass.                 *)
(* GameContainer filters the projectiles and the obstacles right after the *)
(* move and the enemies right after the projectile pass.                   *)
(***************************************************************************)
C21_OnlyCleanupRemoves ==
    gameScreen = "playing" =>
        \A keys \in Keys, rnd \in ContainerRnd :
            /\ Len(BeforeShots(gameState, keys, rnd).projectiles)
                   = Len(BeforeMoves(gameState, keys, rnd).projectiles)
            /\ Len(BeforeShots(gameState, keys, rnd).obstacles)
                   = Len(BeforeMoves(gameState, keys, rnd).obstacles)
            /\ Len(ShotTanks(1, BeforeShots(gameState, keys, rnd)).enemies)
                   = Len(BeforeShots(gameState, keys, rnd).enemies)

(***************************************************************************)
(* C22: updateEntities called on a paused state returns a state equal to   *)
(* the one it was given: the player's cooldown, the enemies and the        *)
(* projectiles are all as they were.                                       *)
(***************************************************************************)
C22_PausedUpdate ==
    (probe # Undefined /\ probe.fn = "updateEntities" /\ probe.args.gs.isPaused) =>
        probe.out = probe.args.gs

\* updateEntities was called on a paused state whose player is cooling
\* down, with enemies and a projectile in flight: a state the update would
\* have changed had it not been paused
C22_Witness ==
    /\ probe # Undefined
    /\ probe.fn = "updateEntities"
    /\ probe.args.gs.isPaused
    /\ probe.args.gs.player.cooldown > 0
    /\ Len(probe.args.gs.enemies) > 0
    /\ \E i \in 1..Len(probe.args.gs.projectiles) : probe.args.gs.projectiles[i].isActive
    /\ updateEntities([probe.args.gs EXCEPT !.isPaused = FALSE], probe.args.rnd).projectiles
           # probe.args.gs.projectiles

(***************************************************************************)
(* Object identity.  The states above are values; the source's states are  *)
(* objects that share what a spread ({...state}, {...player}, {...enemy})  *)
(* does not copy.  The operators below give an earlier state object as its *)
(* holder sees it once later code has written through the shared objects.  *)
(***************************************************************************)
\* lib/enemies.updateEnemy lines 158-219 and 278-279: newEnemy is a spread
\* of enemy, so the move and the wrap are written into the position object
\* the caller's enemy has, unless the corrected position, a new object, has
\* replaced it
MovesInPlace(enemy, target, obstacles) ==
    ~checkObstacleCollision(
         Pos(enemy.position.x
                 + Cos(Rotate(enemy, target, WrapAngle(target - enemy.rotation)))
                       * enemy.speed,
             enemy.position.y
                 + Sin(Rotate(enemy, target, WrapAngle(target - enemy.rotation)))
                       * enemy.speed),
         enemy.width, obstacles).collided

\* the target rotation updateEnemy steers enemy by (lines 170-181)
TargetOf(enemy, playerPosition, rnd) ==
    IF rnd.change \/ enemy.targetRotation = Undefined
    THEN Atan2(playerPosition.y - enemy.position.y,
               playerPosition.x - enemy.position.x)
    ELSE enemy.targetRotation.v

\* the state object gs once GameEngine.update has run on it, shot and rammed
\* being the state of that update after the projectile and the tank
\* collisions: the obstacles are the same objects all along, the player's
\* position object is the one updatePlayer's spread keeps, an enemy's the
\* one updateEnemy has written into
SeenAfter(gs, shot, rammed, rnd) ==
    [gs EXCEPT
        !.obstacles = shot.obstacles,
        !.player.position = rammed.player.position,
        !.enemies =
            [i \in 1..Len(gs.enemies) |->
                IF MovesInPlace(gs.enemies[i],
                                TargetOf(gs.enemies[i], gs.player.position, rnd),
                                gs.obstacles)
                THEN [gs.enemies[i] EXCEPT !.position = rammed.enemies[i].position]
                ELSE gs.enemies[i]]]

SnapshotAfterShots(gs, shot, rnd) == SeenAfter(gs, shot, RamTanks(shot), rnd)

\* the state object gs as its holder sees it after the tick that started on it
SnapshotAfterTick(gs, rnd) ==
    SnapshotAfterShots(gs, ShootTanks(updateEntities(gs, rnd)), rnd)

\* the state object handed to handleCollisions once handleCollisions has
\* returned: its player, enemies and obstacles are written to in place, its
\* projectiles and power-ups are left alone (lines 181, 239-244, 350-372)
InputAfterCollisions(gs) ==
    [RamTanks(ShootTanks(gs)) EXCEPT !.projectiles = gs.projectiles]

(***************************************************************************)
(* C23: a state that was handed to the renderer callback, or passed to     *)
(* updateEntities or to handleCollisions, keeps the values it had: the     *)
(* state the latest tick rendered is, as its holder sees it, the same      *)
(* after the next tick as before, and the state handleCollisions is called *)
(* on is the same after the call as before.                                *)
(* The engine's helpers write through the objects the spreads share.       *)
(***************************************************************************)
C23_SnapshotsKept ==
    (rendered # Undefined /\ shouldUpdate(rendered.v)) =>
        \A rnd \in Rnd :
            /\ SnapshotAfterTick(rendered.v, rnd) = rendered.v
            /\ InputAfterCollisions(updateEntities(rendered.v, rnd))
                   = updateEntities(rendered.v, rnd)

\* the point `distance` ahead of position along rotation
Ahead(position, rotation, distance) ==
    Pos(position.x + Cos(rotation) * distance, position.y + Sin(rotation) * distance)

\* the position is clear of the margins at which a projectile is wrapped
OffTheEdges(position) ==
    /\ SIZES_projectile < position.x
    /\ position.x < DEFAULT_WIDTH - SIZES_projectile - 1
    /\ SIZES_projectile < position.y
    /\ position.y < DEFAULT_HEIGHT - SIZES_projectile - 1

\* a projectile has been fired and followed for some ticks
InFlight == probe # Undefined /\ probe.fn \in {"createProjectile", "update"}

PassesHitTest(moved, i, tank) ==
    /\ moved.projectiles[i].isActive
    /\ FirstObstacleHit(moved.projectiles[i], moved.obstacles) = 0
    /\ isColliding(moved.projectiles[i], tank)
    /\ moved.projectiles[i].position # tank.position

\* what handleProjectileCollisions makes of the moved state: every player's
\* projectile that passes the test against an enemy is deactivated and the
\* enemy damaged, every enemy's projectile that passes it against the
\* player is deactivated and the player damaged unless shielded
HitsResolved(moved, shot) ==
    \A i \in 1..Len(moved.projectiles) :
        /\ moved.projectiles[i].owner = "player" =>
              \A j \in 1..Len(moved.enemies) :
                  PassesHitTest(moved, i, moved.enemies[j]) =>
                      /\ ~shot.projectiles[i].isActive
                      /\ shot.enemies[j].health < moved.enemies[j].health
        /\ (/\ moved.projectiles[i].owner = "enemy"
            /\ PassesHitTest(moved, i, moved.player)) =>
              /\ ~shot.projectiles[i].isActive
              /\ \/ moved.powerUpEffects.shield
                 \/ shot.player.health < moved.player.health

(***************************************************************************)
(* C25: in the tick about to run, a projectile that passes the circular    *)
(* hit test against an opposing tank is resolved as a hit (deactivated,    *)
(* damage applied) unless both of its coordinates equal the tank's;        *)
(* sharing one coordinate with the tank does not suppress the hit.         *)
(***************************************************************************)
C25_OneCoordinateHits ==
    shouldUpdate(gameState) =>
        \A rnd \in Rnd :
            HitsResolved(updateEntities(gameState, rnd),
                         handleProjectileCollisions(updateEntities(gameState, rnd)))

\* how many projectiles `side` has added to the state's in the record w
NewShells(prevState, w, side) ==
    Len(SelectSeq(SubSeq(w.projectiles, Len(prevState.projectiles) + 1,
                         Len(w.projectiles)),
                  LAMBDA p : p.firedBy = side))

\* the enemies whose cooldown the tick has set to maxCooldown
Reloaded(w) ==
    {j \in 1..Len(w.enemies) : w.enemies[j].cooldown = w.enemies[j].maxCooldown}

\* the tick from prevState, w its record once the tanks have fired and
\* after the record it ends with: the player adds a projectile only with
\* its cooldown at 0, just one, and ends the tick one below the cooldown
\* set; an enemy adds one only if this tick's decrement has brought its
\* cooldown to 0 with the player in range, and ends the tick at
\* maxCooldown; a tank that has not fired loses at most one from its
\* cooldown
FiresCooled(prevState, w, after) ==
    /\ NewShells(prevState, w, "player") <= 1
    /\ NewShells(prevState, w, "player") = 1 =>
          /\ prevState.player.cooldown = 0
          /\ after.player.cooldown = effectiveCooldown(prevState) - 1
    /\ NewShells(prevState, w, "player") = 0 =>
          after.player.cooldown >= prevState.player.cooldown - 1
    /\ NewShells(prevState, w, "enemy") = Cardinality(Reloaded(w))
    /\ \A j \in 1..Len(prevState.enemies) :
          IF j \in Reloaded(w)
          THEN /\ prevState.enemies[j].cooldown <= 1
               /\ Dist2(w.player.position, w.enemies[j].position)
                      < SHOT_RANGE * SHOT_RANGE
          ELSE w.enemies[j].cooldown >= prevState.enemies[j].cooldown - 1

\* between ticks of a match nothing lowers a cooldown
CooldownsKept ==
    (/\ gameScreen = "playing" /\ gameScreen' = "playing"
     /\ calls' \notin {<<"setInterval">>, <<"timeout", "handleStartGame">>}) =>
        /\ gameState'.player.cooldown >= gameState.player.cooldown
        /\ Len(gameState.enemies) > 0 =>
              /\ Len(gameState'.enemies) = Len(gameState.enemies)
              /\ \A j \in 1..Len(gameState.enemies) :
                    gameState'.enemies[j].cooldown >= gameState.enemies[j].cooldown

NearerThanRadii(a, b) ==
    4 * ((a.position.x - b.position.x) * (a.position.x - b.position.x)
         + (a.position.y - b.position.y) * (a.position.y - b.position.y))
        < (a.width + b.width) * (a.width + b.width)

(***************************************************************************)
(* C27: isColliding(a, b) = isColliding(b, a), and it holds exactly when   *)
(* the distance between the centers is strictly less than                  *)
(* (a.width + b.width) / 2.                                                *)
(***************************************************************************)
C27_Symmetric ==
    (probe # Undefined /\ probe.fn = "isColliding") =>
        /\ probe.out.direct = probe.out.exchanged
        /\ probe.out.direct <=> NearerThanRadii(probe.args.obj1, probe.args.obj2)

\* a projectile and a tank whose centers are within the radii, the test
\* true both ways round
C27_Witness ==
    /\ probe # Undefined
    /\ probe.fn = "isColliding"
    /\ probe.args.obj1.width # probe.args.obj2.width
    /\ probe.args.obj1.position # probe.args.obj2.position
    /\ probe.out.direct
    /\ probe.out.exchanged

\* two tanks whose centers are as far apart as the sum of their radii do
\* not collide
C27_WitnessTouching ==
    /\ probe # Undefined
    /\ probe.fn = "isColliding"
    /\ probe.args.obj1.width = SIZES_enemy
    /\ probe.args.obj2.width = SIZES_enemy
    /\ probe.args.obj2.position = Pos(140, 100)
    /\ ~probe.out.direct

\* how deep, in half pixels, the square of side size at position reaches
\* into the obstacle widened by the safety margin, along x and along y
DepthX(position, size, obstacle) ==
    size + obstacle.width + 2 - 2 * Abs(position.x - obstacle.position.x)

DepthY(position, size, obstacle) ==
    size + obstacle.height + 2 - 2 * Abs(position.y - obstacle.position.y)

Inside(position, size, obstacle) ==
    DepthX(position, size, obstacle) > 0 /\ DepthY(position, size, obstacle) > 0

\* corrected is position moved along x only, by the depth along x, away
\* from the obstacle's center
PushedAlongX(position, corrected, size, obstacle) ==
    /\ corrected.y = position.y
    /\ corrected.x # position.x
    /\ 2 * Abs(corrected.x - position.x) = DepthX(position, size, obstacle)
    /\ Abs(corrected.x - obstacle.position.x)
           > Abs(position.x - obstacle.position.x)

PushedAlongY(position, corrected, size, obstacle) ==
    /\ corrected.x = position.x
    /\ corrected.y # position.y
    /\ 2 * Abs(corrected.y - position.y) = DepthY(position, size, obstacle)
    /\ Abs(corrected.y - obstacle.position.y)
           > Abs(position.y - obstacle.position.y)

\* the result of a call is the correction for the obstacle it has hit
CorrectedFor(position, size, obstacle, result) ==
    /\ IF DepthX(position, size, obstacle) <= DepthY(position, size, obstacle)
       THEN PushedAlongX(position, result.correctedPosition.v, size, obstacle)
       ELSE PushedAlongY(position, result.correctedPosition.v, size, obstacle)
    /\ ~Inside(result.correctedPosition.v, size, obstacle)

(***************************************************************************)
(* C28: checkObstacleCollision gives a correctedPosition if and only if    *)
(* collided is true; it is then the candidate position moved on one axis   *)
(* only, the axis of the smaller penetration of the first obstacle in list *)
(* order that the candidate intersects, by that penetration and away from  *)
(* the obstacle's center, and it does not intersect that obstacle.         *)
(***************************************************************************)
C28_Corrected ==
    (probe # Undefined /\ probe.fn = "checkObstacleCollision") =>
        /\ probe.out.correctedPosition.some <=> probe.out.collided
        /\ probe.out.collided <=>
              \E i \in 1..Len(probe.args.obstacles) :
                  Inside(probe.args.position, probe.args.size, probe.args.obstacles[i])
        /\ \A i \in 1..Len(probe.args.obstacles) :
              (/\ Inside(probe.args.position, probe.args.size, probe.args.obstacles[i])
               /\ \A j \in 1..(i - 1) :
                     ~Inside(probe.args.position, probe.args.size,
                             probe.args.obstacles[j])) =>
                  CorrectedFor(probe.args.position, probe.args.size,
                               probe.args.obstacles[i], probe.out)

\* the candidate is inside both obstacles, deeper along x than along y in
\* the first, and has been moved along y
C28_Witness ==
    /\ probe # Undefined
    /\ probe.fn = "checkObstacleCollision"
    /\ Len(probe.args.obstacles) = 2
    /\ Inside(probe.args.position, probe.args.size, probe.args.obstacles[1])
    /\ Inside(probe.args.position, probe.args.size, probe.args.obstacles[2])
    /\ DepthX(probe.args.position, probe.args.size, probe.args.obstacles[1])
           > DepthY(probe.args.position, probe.args.size, probe.args.obstacles[1])
    /\ probe.out.collided
    /\ probe.out.correctedPosition.v.x = probe.args.position.x
    /\ probe.out.correctedPosition.v.y # probe.args.position.y
    /\ Inside(probe.out.correctedPosition.v, probe.args.size, probe.args.obstacles[2])

\* a tank of the enemy's width would collide at the position
Blocked(position, enemy, obstacles) ==
    checkObstacleCollision(position, enemy.width, obstacles).collided

\* the enemy's forward move along `heading` is blocked and so are the
\* probes 5 ahead and 5 behind
Wedged(enemy, heading, obstacles) ==
    /\ Blocked(Ahead(enemy.position, heading, enemy.speed), enemy, obstacles)
    /\ Blocked(Ahead(enemy.position, heading, 5), enemy, obstacles)
    /\ Blocked(Ahead(enemy.position, heading, -5), enemy, obstacles)

\* the recovery of a wedged enemy: the first free position 2 to the side,
\* or a target heading a quarter turn or a half turn off the heading
Recovered(enemy, heading, obstacles, updated) ==
    IF ~Blocked(Ahead(enemy.position, heading - 1, 2), enemy, obstacles)
    THEN updated.position = Ahead(enemy.position, heading - 1, 2)
    ELSE IF ~Blocked(Ahead(enemy.position, heading + 1, 2), enemy, obstacles)
    THEN updated.position = Ahead(enemy.position, heading + 1, 2)
    ELSE updated.targetRotation \in {Some(heading + 1), Some(heading - 1),
                                     Some(heading + 2)}

(***************************************************************************)
(* C29: an enemy whose forward move is blocked and whose probes ahead and  *)
(* behind both collide is moved to the first collision-free position to    *)
(* its side, and if both collide its targetRotation becomes its heading    *)
(* plus 90, minus 90 or plus 180 degrees.                                  *)
(***************************************************************************)
C29_StuckRecovery ==
    (/\ probe # Undefined
     /\ probe.fn = "updateEnemy"
     /\ Wedged(probe.args.enemy, probe.out.rotation, probe.args.obstacles)) =>
        Recovered(probe.args.enemy, probe.out.rotation, probe.args.obstacles,
                  probe.out)

\* the position sampled at attempt i of a call
Sampled(args, i) == SamplePoint(args.width, args.height, args.margin, args.draws[i])

\* the attempts of a call whose sample collides with no obstacle
FreeAttempts(args) ==
    {i \in 1..MAX_SPAWN_ATTEMPTS :
        \A o \in 1..Len(args.obstacles) :
            ~Inside(Sampled(args, i), args.objectSize, args.obstacles[o])}

\* the position is within the bounds reduced by the margin
WithinMargins(position, args) ==
    /\ args.margin <= position.x /\ position.x < args.width - args.margin
    /\ args.margin <= position.y /\ position.y < args.height - args.margin

(***************************************************************************)
(* C30: findSafeSpawnPosition returns after at most 50 samples; it returns *)
(* the first sample that collides with no obstacle, a point within the     *)
(* bounds reduced by the margin, and when all 50 samples collide it        *)
(* returns the center (width / 2, height / 2) of the playfield.            *)
(***************************************************************************)
C30_SafeSpawn ==
    (probe # Undefined /\ probe.fn = "findSafeSpawnPosition") =>
        /\ probe.out.attempts <= 50
        /\ MAX_SPAWN_ATTEMPTS = 50
        /\ \A i \in FreeAttempts(probe.args) :
              (\A j \in 1..(i - 1) : j \notin FreeAttempts(probe.args)) =>
                  /\ probe.out.position = Sampled(probe.args, i)
                  /\ probe.out.attempts = i
                  /\ WithinMargins(probe.out.position, probe.args)
        /\ FreeAttempts(probe.args) = {} =>
              /\ 2 * probe.out.position.x = probe.args.width
              /\ 2 * probe.out.position.y = probe.args.height
              /\ probe.out.attempts = 50

\* 49 samples on an obstacle, then a free one, which is returned
C30_Witness ==
    /\ probe # Undefined
    /\ probe.fn = "findSafeSpawnPosition"
    /\ FreeAttempts(probe.args) = {MAX_SPAWN_ATTEMPTS}
    /\ probe.out.attempts = 50
    /\ probe.out.position = Sampled(probe.args, MAX_SPAWN_ATTEMPTS)

\* every sample collides and the center, on an obstacle itself, is returned
C30_WitnessCenter ==
    /\ probe # Undefined
    /\ probe.fn = "findSafeSpawnPosition"
    /\ FreeAttempts(probe.args) = {}
    /\ probe.out.position = Pos(400, 300)
    /\ \E o \in 1..Len(probe.args.obstacles) :
          Inside(probe.out.position, probe.args.objectSize, probe.args.obstacles[o])

\* generateObstacles has left its loop: the obstacles it returns
Generated ==
    /\ probe # Undefined
    /\ probe.fn = "generateObstacles"
    /\ probe.out.i >= probe.args.count

\* 4 + count obstacles, the four indestructible borders first, the others
\* at least 150 from (100, 100), health 100 on the destructible ones only
WellGenerated(obstacles, count) ==
    /\ Len(obstacles) = 4 + count
    /\ \A k \in 1..4 : ~obstacles[k].isDestructible
    /\ \A k \in 5..Len(obstacles) :
          (obstacles[k].position.x - 100) * (obstacles[k].position.x - 100)
              + (obstacles[k].position.y - 100) * (obstacles[k].position.y - 100)
              >= 22500
    /\ \A k \in 1..Len(obstacles) :
          obstacles[k].health = IF obstacles[k].isDestructible
                                THEN Some(100 * HP) ELSE Undefined

(***************************************************************************)
(* C31: generateObstacles(width, height, count) terminates for every       *)
(* playfield size, and returns 4 + count obstacles: the four               *)
(* indestructible borders, then count obstacles with centers at least 150  *)
(* from the spawn point (100, 100); destructible obstacles have health     *)
(* 100, the others none.                                                   *)
(***************************************************************************)
C31_Generates ==
    /\ [](Generated => WellGenerated(probe.out.obstacles, probe.args.count))
    /\ []((probe # Undefined /\ probe.args.kind = "generateObstacles") => <>Generated)

\* the player and the enemies of a state, the player first
TanksOf(gs) == <<gs.player>> \o gs.enemies

\* every two tanks that collide stand on the same spot
OnlyCoincident(tanks) ==
    \A a, b \in 1..Len(tanks) :
        (a # b /\ isColliding(tanks[a], tanks[b])) =>
            tanks[a].position = tanks[b].position

(***************************************************************************)
(* C32: two colliding tanks on exactly the same position both take the     *)
(* collision damage (the player unless shielded), and the separating push  *)
(* is skipped: where no other collision moves them, the positions after    *)
(* the pass are the positions before it.                                   *)
(***************************************************************************)
C32_CoincidentTanks ==
    (probe # Undefined /\ probe.fn = "handleTankCollisions") =>
        /\ \A j \in 1..Len(probe.args.gs.enemies) :
              probe.args.gs.enemies[j].position = probe.args.gs.player.position =>
                  /\ probe.out.enemies[j].health < probe.args.gs.enemies[j].health
                  /\ \/ probe.args.gs.powerUpEffects.shield
                     \/ probe.out.player.health < probe.args.gs.player.health
        /\ \A i, j \in 1..Len(probe.args.gs.enemies) :
              (/\ i < j
               /\ probe.args.gs.enemies[i].position
                      = probe.args.gs.enemies[j].position) =>
                  /\ probe.out.enemies[i].health < probe.args.gs.enemies[i].health
                  /\ probe.out.enemies[j].health < probe.args.gs.enemies[j].health
        /\ OnlyCoincident(TanksOf(probe.args.gs)) =>
              \A t \in 1..Len(TanksOf(probe.args.gs)) :
                  TanksOf(probe.out)[t].position
                      = TanksOf(probe.args.gs)[t].position

\* the player and both enemies on one spot: all three damaged, none moved
C32_Witness ==
    /\ probe # Undefined
    /\ probe.fn = "handleTankCollisions"
    /\ ~probe.args.gs.powerUpEffects.shield
    /\ \A j \in 1..2 :
          /\ probe.args.gs.enemies[j].position = probe.args.gs.player.position
          /\ probe.out.enemies[j].position = probe.args.gs.player.position
          /\ probe.out.enemies[j].health < probe.args.gs.enemies[j].health
    /\ probe.out.player.position = probe.args.gs.player.position
    /\ probe.out.player.health < probe.args.gs.player.health

(***************************************************************************)
(* The difficulty accumulator.                                             *)
(***************************************************************************)
\* the enemies of a list that are not destroyed
Standing(enemies) == {i \in 1..Len(enemies) : enemies[i].health > 0}

\* the enemies a tick destroys: those standing before it less those
\* standing after it (a tick adds no enemy)
EnemiesLost(before, after) ==
    Cardinality(Standing(before.enemies)) - Cardinality(Standing(after.enemies))

\* the accumulator is raised by at most ENEMY_SPEED_INCREASE_PER_KILL +
\* ENEMY_SPEED_RANDOMNESS for each enemy destroyed, and at least by
\* ENEMY_SPEED_INCREASE_PER_KILL - ENEMY_SPEED_RANDOMNESS, short of the cap
RaisedPerKill ==
    calls' = <<"setInterval">> =>
        LET destroyed == EnemiesLost(gameState, gameState') IN
        /\ enemySpeedIncrease' - enemySpeedIncrease
              <= destroyed * (ENEMY_SPEED_INCREASE_PER_KILL + ENEMY_SPEED_RANDOMNESS)
        /\ \/ enemySpeedIncrease' = SPEED_CAP
           \/ enemySpeedIncrease' - enemySpeedIncrease
                 >= destroyed * (ENEMY_SPEED_INCREASE_PER_KILL - ENEMY_SPEED_RANDOMNESS)

\* the next tick raises the accumulator no more often than it destroys
\* enemies, whatever the keys and the random draws
OncePerKill ==
    gameScreen = "playing" =>
        \A keys \in Keys, rnd \in ContainerRnd :
            loopBody(gameState, keys, rnd).kills
                <= EnemiesLost(gameState, loopBody(gameState, keys, rnd))

(* C33: the speed-increase accumulator never decreases and never exceeds   *)
(* ENEMY_SPEED_MAX_CAP; a tick raises it by ENEMY_SPEED_INCREASE_PER_KILL  *)
(* plus or minus at most ENEMY_SPEED_RANDOMNESS for each enemy it          *)
(* destroys, clamped to the cap, and it raises it once per destroyed enemy *)
C33_Accumulator ==
    /\ [](enemySpeedIncrease <= SPEED_CAP /\ OncePerKill)
    /\ [][enemySpeedIncrease' >= enemySpeedIncrease /\ RaisedPerKill]_vars


(***************************************************************************)
(* The enemies spawned during a match.                                     *)
(***************************************************************************)
\* the enemies a step adds to the list
NewEnemies == {i \in 1..Len(gameState'.enemies) : i > Len(gameState.enemies)}

\* the step is the spawn timeout or the respawn timeout
Spawns == calls' \in {<<"timeout", "spawnEnemy">>, <<"timeout", "respawn">>}

(* C34: every enemy spawned during a match has the speed band of the       *)
(* accumulator's value at the time of the spawn, [ENEMY_SPEED_MIN + a,     *)
(* ENEMY_SPEED_MAX + a] capped, not that of a value captured earlier       *)
C34_SpawnedAtCurrentSpeed ==
    [][Spawns =>
          \A i \in NewEnemies :
              gameState'.enemies[i].band = SpeedBand(enemySpeedIncrease)]_vars


\* the spawn timeout adds enemies only to a list shorter than MAX_ENEMIES
SpawnsUnderCap ==
    (calls' = <<"timeout", "spawnEnemy">> /\ NewEnemies # {}) =>
        Len(gameState.enemies) < MAX_ENEMIES

\* the respawn timeout leaves the enemies alone unless there is none, and
\* then installs two
RespawnsOnEmpty ==
    (calls' = <<"timeout", "respawn">> /\ gameState'.enemies # gameState.enemies) =>
        (Len(gameState.enemies) = 0 /\ Len(gameState'.enemies) = 2)

(* C35: the state never holds more than MAX_ENEMIES enemies: the timed     *)
(* spawner, its second spawn included, adds an enemy only when fewer than  *)
(* MAX_ENEMIES exist, and the respawn installs two enemies only when none  *)
(* exists, however many respawn timers are pending                         *)
C35_EnemyCap ==
    /\ [](Len(gameState.enemies) <= MAX_ENEMIES)
    /\ [][SpawnsUnderCap /\ RespawnsOnEmpty]_vars

\* the list is full and the spawn timeout, still pending, adds nothing
C35_Witness ==
    /\ Len(gameState.enemies) = MAX_ENEMIES
    /\ calls = <<"timeout", "spawnEnemy">>
    /\ \E i \in 1..Len(timers) :
          /\ timers[i].kind = "spawn"
          /\ \A place \in SpawnPlaces :
                spawnEnemy(gameState, timers[i].enemySpeedIncrease, place) = gameState

\* two respawn timers were pending, one has installed the two enemies and
\* the other is still to run
C35_WitnessRespawn ==
    /\ calls = <<"timeout", "respawn">>
    /\ Len(gameState.enemies) = 2
    /\ \A i \in 1..2 : gameState.enemies[i].band = SpeedBand(enemySpeedIncrease)
    /\ \E i \in 1..Len(timers) : timers[i].kind = "respawn"


(***************************************************************************)
(* The engine's loop under start, stop, pause and resume.                  *)
(***************************************************************************)
\* every pending animation-frame callback runs in the next frame period and
\* drives a tick while isRunning holds: at most one may be pending
OneLoop == Cardinality(pendingFrames) <= 1

\* stop leaves no callback of an earlier start pending
StopCancelsAll == Entry(calls') = "stop" => pendingFrames' = {}

(* C36: at most one game loop is ever scheduled, whatever the sequence of  *)
(* start, stop, pause and resume calls: a frame period drives at most one  *)
(* tick, and after stop no frame scheduled by an earlier start can still   *)
(* run a tick                                                              *)
C36_SingleLoop == []OneLoop /\ [][StopCancelsAll]_vars


(***************************************************************************)
(* The two wrapping functions side by side.                                *)
(***************************************************************************)
\* a wrapping function has been called with bounds that have a width and a
\* height
WrapCalled ==
    /\ probe # Undefined
    /\ probe.fn \in {"PhysicsSystem.calculateWrappedPosition",
                     "calculateWrappedPosition"}
    /\ ValidSpace(probe.args.space)

(* C37: the wrapping the entity update applies, calculateWrappedPosition   *)
(* of utils/position, agrees with PhysicsSystem.calculateWrappedPosition:  *)
(* for every position, threshold and valid bounds both return the same    *)
(* wrapped position                                                        *)
C37_WrapsAgree ==
    WrapCalled =>
        Wrapped("calculateWrappedPosition", probe.args)
            = Wrapped("PhysicsSystem.calculateWrappedPosition", probe.args)


(***************************************************************************)
(* One projectile, one hit.                                                *)
(***************************************************************************)
\* the tanks of w projectile i passes the hit test against: enemy e as e,
\* the player as 0
TanksHit(w, i) ==
    {e \in 1..Len(w.enemies) : HitsTank(w.projectiles[i], w.enemies[e])}
        \cup IF HitsTank(w.projectiles[i], SeenPlayer(w)) THEN {0} ELSE {}

\* no projectile of w hits two tanks
OneTankEach(w) ==
    \A i \in 1..Len(w.projectiles) : Cardinality(TanksHit(w, i)) <= 1

\* the record with the first enemy only
AloneWithFirst(w) == [w EXCEPT !.enemies = SubSeq(@, 1, 1)]

\* what the pass takes from the player does not depend on how many enemies
\* there are besides the first
SameDamage(w) ==
    Len(w.enemies) >= 1 =>
        ShotTanks(1, w).player.health = ShotTanks(1, AloneWithFirst(w)).player.health

(* C38: a projectile that hits in a tick subtracts its damage once from    *)
(* one tank: in the projectile-against-tank pass of any tick no projectile *)
(* hits two tanks, and the damage the player takes is the same whether or  *)
(* not there are other tanks on the field                                  *)
C38_OneHit ==
    gameScreen = "playing" =>
        \A keys \in Keys, rnd \in ContainerRnd :
            /\ OneTankEach(BeforeShots(gameState, keys, rnd))
            /\ SameDamage(BeforeShots(gameState, keys, rnd))


(***************************************************************************)
(* Expiry timers and later pickups.                                        *)
(***************************************************************************)
\* timer i is an expiry of `effect`
ExpiryOf(effect, i, pending) ==
    pending[i].kind = "expire" /\ pending[i].effect = effect

\* the step runs timer i, an expiry of `effect`, while the effect is on
EndsEffect(effect, i) ==
    /\ Expires(effect)
    /\ i \in 1..Len(timers)
    /\ ExpiryOf(effect, i, timers)
    /\ timers' = Without(timers, i)
    /\ gameState.powerUpEffects[effect] # DefaultEffects[effect]

\* an expiry set in a later tick than timer i for the same effect is
\* pending: a later pickup's duration has not elapsed
LaterPickup(effect, i) ==
    \E j \in (i + 1)..Len(timers) :
        ExpiryOf(effect, j, timers) /\ timers[j].tick > timers[i].tick

(* C39: a timed effect lasts from the latest pickup to the end of that     *)
(* pickup's duration: the expiry of an earlier pickup of the same type, of *)
(* this match or of a match before a restart, never ends the effect while  *)
(* the latest pickup's own expiry is still to come                         *)
C39_LatestPickupLasts ==
    [][\A effect \in DOMAIN DefaultEffects :
           \A i \in 1..Len(timers) :
               EndsEffect(effect, i) => ~LaterPickup(effect, i)]_vars


(***************************************************************************)
(* Destroyed enemies at the end of a tick.                                 *)
(***************************************************************************)
\* the step is a tick: the interval's callback, or an engine update with
\* its cleanup
EndsTick ==
    \/ calls' = <<"setInterval">>
    \/ \E k \in 1..Len(calls') : calls'[k] = "cleanup"

(* C40: the state a tick leaves holds no enemy with health <= 0, whether   *)
(* the enemy was destroyed by a projectile, by ramming the player or by    *)
(* colliding with another enemy                                            *)
C40_NoDeadEnemies ==
    [][EndsTick =>
          \A i \in 1..Len(gameState'.enemies) :
              gameState'.enemies[i].health > 0]_vars


====
